---- MODULE Spec2Model ----
(***************************************************************************)
(* A model of the A2A example agents of this repository:                   *)
(*   - the Simple Math Agent  (src/examples/a2a/simple-server.js)          *)
(*   - the Blog Assistant Agent (src/unnamed/part_001, server side)        *)
(* and of their clients, A2AClient (src/unnamed/part_002) of the math      *)
(* agent and BlogClient (src/unnamed/part_001) of the blog agent.          *)
(* Both are express servers run by the single-threaded Node.js event loop: *)
(* a request handler, and a timer callback, runs to completion together    *)
(* with the promise continuations (microtasks) it makes runnable, so each  *)
(* is one atomic action here.  A call of an async function runs its body   *)
(* synchronously up to its first await that has to wait.                   *)
(***************************************************************************)
EXTENDS Integers, Sequences, FiniteSets, TLC

VARIABLES
  server,   \* which of the two agents the process runs: "simple" or "blog"
  tasks,    \* the Map `tasks`: taskId -> [task |-> ..., history |-> ...]
  exec,     \* per task: the suspended executeTask/handleTask call (closure + position)
  sink,     \* per task: the updates handleTask/executeTask passed to updateCallback, in call order
  clock,    \* the wall clock read by new Date()
  req,      \* the request the server handled last
  resp,     \* the response it produced for that request
  client    \* the client object of the program and its running call

vars == <<server, tasks, exec, sink, clock, req, resp, client>>

(***************************************************************************)
(* Bounds of the model.                                                    *)
(***************************************************************************)
MaxTasks == 2
MaxClock == 1

TaskIds == 1..MaxTasks

(***************************************************************************)
(* JavaScript values.  An object is a record (a function on its own        *)
(* property names); a property that is not there reads as undefined.       *)
(***************************************************************************)
Undefined == [undefined |-> TRUE]

EmptyObject == [x \in {} |-> TRUE]

Has(obj, key) == key \in DOMAIN obj

\* obj[key] = value, the other properties kept
SetField(obj, key, value) == (key :> value) @@ obj

\* a template literal's ${x} for a string-or-undefined property
Str(obj, key) == IF Has(obj, key) THEN obj[key] ELSE "undefined"

TerminalStates == {"completed", "failed", "canceled", "rejected"}

(***************************************************************************)
(* The two programs.                                                       *)
(***************************************************************************)
Servers == {"simple", "blog"}

\* the ids of agentCard.skills
agentCardSkills(s) ==
  IF s = "simple" THEN {"add"} ELSE {"research_topic", "generate_outline"}

\* the key authenticateApiKey compares with
ValidApiKey(s) == IF s = "simple" THEN "test-api-key" ELSE "blog-api-key"

\* a variant of authenticateApiKey that only looks whether a key is sent
authenticateApiKeyPresenceOnly(s, headers) ==
  Has(headers, "x-api-key") /\ headers["x-api-key"] # ""

\* authenticateApiKey: TRUE when next() is called
authenticateApiKey(s, headers) ==
  LET present == Has(headers, "x-api-key")
  IN  ~(~present \/ headers["x-api-key"] = "" \/ headers["x-api-key"] # ValidApiKey(s))

\* the message of the 401 envelope
AuthErrorMessage(s) == IF s = "simple" THEN "Authentication failed" ELSE "Invalid API key"

(***************************************************************************)
(* Messages, parts and updates.                                            *)
(***************************************************************************)
TextPart(text) == [type |-> "text", text |-> text]

DataPart(data) == [type |-> "data", data |-> data]

AgentMessage(text) == [role |-> "agent", parts |-> <<TextPart(text)>>]

\* a thrown Error
Thrown(message) == [threw |-> TRUE, message |-> message]

\* userMessage.parts.find(p => p.type === 'data'): the first data part, or undefined
FindDataPart(parts) ==
  LET hits == {i \in 1..Len(parts) : parts[i].type = "data"}
  IN  IF hits = {} THEN Undefined
      ELSE parts[CHOOSE i \in hits : \A j \in hits : i <= j]

\* dataPart?.data || {}
ParamsOf(userMessage) ==
  LET dataPart == FindDataPart(userMessage.parts)
  IN  IF dataPart # Undefined /\ Has(dataPart, "data") THEN dataPart.data ELSE EmptyObject

\* what reading userMessage.parts.find throws, "" when it does not throw
PartsFault(userMessage) ==
  IF userMessage = Undefined
    THEN "Cannot read properties of undefined (reading 'parts')"
  ELSE IF ~Has(userMessage, "parts")
    THEN "Cannot read properties of undefined (reading 'find')"
  ELSE ""

(***************************************************************************)
(* The capabilities' computations.                                         *)
(***************************************************************************)
NaN == "NaN"

\* a variant of Sum that subtracts
SumSubtracts(params) ==
  IF Has(params, "a") /\ Has(params, "b") THEN params.a - params.b ELSE NaN

\* params.a + params.b for numbers; a missing operand makes the sum NaN
Sum(params) ==
  IF Has(params, "a") /\ Has(params, "b") THEN params.a + params.b ELSE NaN

\* `${result}`
SumText(params) ==
  IF Has(params, "a") /\ Has(params, "b") THEN ToString(params.a + params.b) ELSE NaN

\* researchTopic(topic, audience)
researchTopic(params) ==
  LET topic == Str(params, "topic")
  IN  [keyPoints |-> << "Definition and importance of " \o topic,
                        "Current trends in " \o topic,
                        "Best practices for " \o topic,
                        "Common challenges with " \o topic,
                        "Future of " \o topic >>,
       resources |-> << [title |-> "\"" \o topic \o " Fundamentals\"",
                         url |-> "https://example.com/1"],
                        [title |-> "\"Advanced " \o topic \o " Techniques\"",
                         url |-> "https://example.com/2"] >>,
       audience  |-> IF Has(params, "target_audience") /\ params.target_audience # ""
                       THEN params.target_audience ELSE "general readers"]

\* params.word_count || 1000
WordCountOf(params) ==
  IF Has(params, "word_count") /\ params.word_count # 0 THEN params.word_count ELSE 1000

\* generateOutline(topic, keyPoints, wordCount); throws when keyPoints is undefined
generateOutline(params) ==
  IF ~Has(params, "key_points")
    THEN Thrown("Cannot read properties of undefined (reading 'length')")
  ELSE
    LET keyPoints == params.key_points
        wordCount == WordCountOf(params)
        wordsPerSection == wordCount \div (Len(keyPoints) + 2)
    IN  [title |-> "The Complete Guide to " \o Str(params, "topic"),
         target_word_count |-> wordCount,
         sections |->
           << [heading |-> "Introduction", word_count |-> wordsPerSection,
               notes |-> "Hook the reader, introduce the topic, preview main points"] >>
           \o [i \in 1..Len(keyPoints) |->
                [heading |-> keyPoints[i], word_count |-> wordsPerSection,
                 notes |-> "Expand on this key point with examples and explanations"]]
           \o << [heading |-> "Conclusion", word_count |-> wordsPerSection,
                  notes |-> "Summarize key points, call to action"] >>]

\* context.isCancelled(): current?.task.status.state === 'canceled'
isCancelled(store, taskId) ==
  taskId \in DOMAIN store /\ store[taskId].task.status.state = "canceled"

\* a variant of updateCallback that takes the artifacts only of an update
\* without a state
updateCallbackDropsArtifacts(store, taskId, update, now) ==
  IF taskId \notin DOMAIN store THEN store
  ELSE
    LET d0 == store[taskId]
        d1 == IF Has(update, "state")
                THEN [d0 EXCEPT !.task.status =
                        SetField(SetField(@, "state", update.state), "timestamp", now)]
                ELSE d0
        d2 == IF Has(update, "message")
                THEN [d1 EXCEPT !.history = Append(@, update.message),
                                !.task.status = SetField(@, "message", update.message)]
                ELSE d1
        d3 == IF Has(update, "artifacts") /\ ~Has(update, "state")
                THEN [d2 EXCEPT !.task.artifacts = @ \o update.artifacts]
                ELSE d2
    IN  [store EXCEPT ![taskId] = d3]

\* a variant of updateCallback that keeps only the latest message as the
\* history
updateCallbackReplacesHistory(store, taskId, update, now) ==
  IF taskId \notin DOMAIN store THEN store
  ELSE
    LET d0 == store[taskId]
        d1 == IF Has(update, "state")
                THEN [d0 EXCEPT !.task.status =
                        SetField(SetField(@, "state", update.state), "timestamp", now)]
                ELSE d0
        d2 == IF Has(update, "message")
                THEN [d1 EXCEPT !.history = <<update.message>>,
                                !.task.status = SetField(@, "message", update.message)]
                ELSE d1
        d3 == IF Has(update, "artifacts")
                THEN [d2 EXCEPT !.task.artifacts = @ \o update.artifacts]
                ELSE d2
    IN  [store EXCEPT ![taskId] = d3]

\* a variant of updateCallback that stamps the record on every update,
\* with a state or without
updateCallbackAlwaysStamps(store, taskId, update, now) ==
  IF taskId \notin DOMAIN store THEN store
  ELSE
    LET d0 == store[taskId]
        d1 == IF Has(update, "state")
                THEN [d0 EXCEPT !.task.status =
                        SetField(SetField(@, "state", update.state), "timestamp", now)]
                ELSE [d0 EXCEPT !.task.status = SetField(@, "timestamp", now)]
        d2 == IF Has(update, "message")
                THEN [d1 EXCEPT !.history = Append(@, update.message),
                                !.task.status = SetField(@, "message", update.message)]
                ELSE d1
        d3 == IF Has(update, "artifacts")
                THEN [d2 EXCEPT !.task.artifacts = @ \o update.artifacts]
                ELSE d2
    IN  [store EXCEPT ![taskId] = d3]

\* a variant of updateCallback whose records share one status object: the
\* state and the timestamp of an update reach every record
updateCallbackSharedStatus(store, taskId, update, now) ==
  IF taskId \notin DOMAIN store THEN store
  ELSE
    LET d0 == store[taskId]
        d1 == IF Has(update, "state")
                THEN [d0 EXCEPT !.task.status =
                        SetField(SetField(@, "state", update.state), "timestamp", now)]
                ELSE d0
        d2 == IF Has(update, "message")
                THEN [d1 EXCEPT !.history = Append(@, update.message),
                                !.task.status = SetField(@, "message", update.message)]
                ELSE d1
        d3 == IF Has(update, "artifacts")
                THEN [d2 EXCEPT !.task.artifacts = @ \o update.artifacts]
                ELSE d2
    IN  [id \in DOMAIN store |->
           IF id = taskId THEN d3
           ELSE [store[id] EXCEPT !.task.status = d3.task.status]]

\* a variant of updateCallback that sets status.message only together with
\* a state
updateCallbackMessageWithState(store, taskId, update, now) ==
  IF taskId \notin DOMAIN store THEN store
  ELSE
    LET d0 == store[taskId]
        d1 == IF Has(update, "state")
                THEN [d0 EXCEPT !.task.status =
                        SetField(SetField(@, "state", update.state), "timestamp", now)]
                ELSE d0
        d2 == IF Has(update, "message")
                THEN IF Has(update, "state")
                       THEN [d1 EXCEPT !.history = Append(@, update.message),
                                       !.task.status = SetField(@, "message", update.message)]
                       ELSE [d1 EXCEPT !.history = Append(@, update.message)]
                ELSE d1
        d3 == IF Has(update, "artifacts")
                THEN [d2 EXCEPT !.task.artifacts = @ \o update.artifacts]
                ELSE d2
    IN  [store EXCEPT ![taskId] = d3]

\* a variant of updateCallback that deletes the record once it is merged
\* into a terminal state
updateCallbackEvictsFinished(store, taskId, update, now) ==
  IF taskId \notin DOMAIN store THEN store
  ELSE
    LET d0 == store[taskId]
        d1 == IF Has(update, "state")
                THEN [d0 EXCEPT !.task.status =
                        SetField(SetField(@, "state", update.state), "timestamp", now)]
                ELSE d0
        d2 == IF Has(update, "message")
                THEN [d1 EXCEPT !.history = Append(@, update.message),
                                !.task.status = SetField(@, "message", update.message)]
                ELSE d1
        d3 == IF Has(update, "artifacts")
                THEN [d2 EXCEPT !.task.artifacts = @ \o update.artifacts]
                ELSE d2
    IN  IF d3.task.status.state \in TerminalStates
          THEN [id \in DOMAIN store \ {taskId} |-> store[id]]
          ELSE [store EXCEPT ![taskId] = d3]

\* a variant of updateCallback that puts the message before the agent
\* messages that are already in the history
updateCallbackUnshiftsMessage(store, taskId, update, now) ==
  IF taskId \notin DOMAIN store THEN store
  ELSE
    LET d0 == store[taskId]
        d1 == IF Has(update, "state")
                THEN [d0 EXCEPT !.task.status =
                        SetField(SetField(@, "state", update.state), "timestamp", now)]
                ELSE d0
        d2 == IF Has(update, "message")
                THEN [d1 EXCEPT !.history = <<@[1], update.message>> \o Tail(@),
                                !.task.status = SetField(@, "message", update.message)]
                ELSE d1
        d3 == IF Has(update, "artifacts")
                THEN [d2 EXCEPT !.task.artifacts = @ \o update.artifacts]
                ELSE d2
    IN  [store EXCEPT ![taskId] = d3]

(***************************************************************************)
(* updateCallback: merge one update into the record of taskId.  Its body   *)
(* has no await, so a call runs to its end before the caller goes on.      *)
(***************************************************************************)
updateCallback(store, taskId, update, now) ==
  IF taskId \notin DOMAIN store THEN store
  ELSE
    LET d0 == store[taskId]
        d1 == IF Has(update, "state")
                THEN [d0 EXCEPT !.task.status =
                        SetField(SetField(@, "state", update.state), "timestamp", now)]
                ELSE d0
        d2 == IF Has(update, "message")
                THEN [d1 EXCEPT !.history = Append(@, update.message),
                                !.task.status = SetField(@, "message", update.message)]
                ELSE d1
        d3 == IF Has(update, "artifacts")
                THEN [d2 EXCEPT !.task.artifacts = @ \o update.artifacts]
                ELSE d2
    IN  [store EXCEPT ![taskId] = d3]

\* a variant of FailedUpdate that reports the fault as a rejection
FailedUpdateRejects(errorMessage) ==
  [state |-> "rejected", message |-> AgentMessage("Error: " \o errorMessage)]

\* the update of executeTask's (and the blog handleTask's) catch block
FailedUpdate(errorMessage) ==
  [state |-> "failed", message |-> AgentMessage("Error: " \o errorMessage)]

\* a variant of UnknownSkillUpdate whose text leaves the skill id out
UnknownSkillUpdateNoId(skillId) ==
  [state |-> "failed", message |-> AgentMessage("Unknown skill")]

UnknownSkillUpdate(skillId) ==
  [state |-> "failed", message |-> AgentMessage("Unknown skill: " \o skillId)]

WorkingUpdate(text) == [state |-> "working", message |-> AgentMessage(text)]

\* a variant of CompletedUpdate that leaves the state at working
CompletedUpdateStaysWorking(text, name, description, data) ==
  [state |-> "working",
   message |-> AgentMessage(text),
   artifacts |-> <<[name |-> name, parts |-> <<DataPart(data)>>]>>]

\* a variant of CompletedUpdate that carries the state and the message and
\* leaves the artifacts to a later update
CompletedUpdateNoArtifacts(text, name, description, data) ==
  [state |-> "completed", message |-> AgentMessage(text)]

CompletedUpdate(text, name, description, data) ==
  [state |-> "completed",
   message |-> AgentMessage(text),
   artifacts |-> << IF description = ""
                      THEN [name |-> name, parts |-> <<DataPart(data)>>]
                      ELSE [name |-> name, description |-> description,
                            parts |-> <<DataPart(data)>>] >>]

(***************************************************************************)
(* handleTask, cut at its one await that waits (the setTimeout promise):   *)
(* segment "start" runs from the call to that await or to the return,      *)
(* segment "resume" from the timer to the return.  The result lists the    *)
(* updates passed to updateCallback, the message of an Error that escapes  *)
(* handleTask ("" for none) and where the call stands afterwards.          *)
(***************************************************************************)
Segment(updates, escaped, next) ==
  [updates |-> updates, escaped |-> escaped, next |-> next]

\* a variant of IsSkill for a switch whose cases match any skill id
IsSkillAny(context, id) == Has(context, "skillId")

IsSkill(context, id) == Has(context, "skillId") /\ context.skillId = id

\* a variant of handleTaskSimple that emits its two updates of add in the
\* other order
handleTaskSimpleSwapped(context, segment) ==
  IF segment = "start" THEN
    IF PartsFault(context.userMessage) # ""
      THEN Segment(<<>>, PartsFault(context.userMessage), "done")
    ELSE IF IsSkill(context, "add")
      THEN Segment(<<CompletedUpdate("The sum is "
                                       \o SumText(ParamsOf(context.userMessage)),
                                     "calculation_result", "",
                                     [result |-> Sum(ParamsOf(context.userMessage))])>>,
                   "", "sleep")
    ELSE Segment(<<UnknownSkillUpdate(Str(context, "skillId"))>>, "", "done")
  ELSE Segment(<<WorkingUpdate("Calculating sum...")>>, "", "done")

\* a variant of handleTask of simple-server.js whose first update of add
\* carries the message only, so that the task completes from submitted
handleTaskSimpleSkipsWorking(context, segment) ==
  IF segment = "start" THEN
    IF PartsFault(context.userMessage) # ""
      THEN Segment(<<>>, PartsFault(context.userMessage), "done")
    ELSE IF IsSkill(context, "add")
      THEN Segment(<<[message |-> AgentMessage("Calculating sum...")]>>, "", "sleep")
    ELSE Segment(<<UnknownSkillUpdate(Str(context, "skillId"))>>, "", "done")
  ELSE
    LET params == ParamsOf(context.userMessage)
    IN  Segment(<<CompletedUpdate("The sum is " \o SumText(params),
                                  "calculation_result", "",
                                  [result |-> Sum(params)])>>, "", "done")

\* handleTask of simple-server.js
handleTaskSimple(context, segment) ==
  IF segment = "start" THEN
    IF PartsFault(context.userMessage) # ""
      THEN Segment(<<>>, PartsFault(context.userMessage), "done")
    ELSE IF IsSkill(context, "add")
      THEN Segment(<<WorkingUpdate("Calculating sum...")>>, "", "sleep")
    ELSE Segment(<<UnknownSkillUpdate(Str(context, "skillId"))>>, "", "done")
  ELSE
    LET params == ParamsOf(context.userMessage)
    IN  Segment(<<CompletedUpdate("The sum is " \o SumText(params),
                                  "calculation_result", "",
                                  [result |-> Sum(params)])>>, "", "done")

\* handleTask of the blog assistant; its try/catch encloses the switch only
handleTaskBlog(context, segment) ==
  IF segment = "start" THEN
    IF PartsFault(context.userMessage) # ""
      THEN Segment(<<>>, PartsFault(context.userMessage), "done")
    ELSE IF IsSkill(context, "research_topic")
      THEN Segment(<<WorkingUpdate("Researching \""
                        \o Str(ParamsOf(context.userMessage), "topic") \o "\"...")>>,
                   "", "sleep")
    ELSE IF IsSkill(context, "generate_outline")
      THEN Segment(<<WorkingUpdate("Generating blog outline...")>>, "", "sleep")
    ELSE Segment(<<UnknownSkillUpdate(Str(context, "skillId"))>>, "", "done")
  ELSE
    LET params == ParamsOf(context.userMessage)
    IN  IF IsSkill(context, "research_topic") THEN
          LET research == researchTopic(params)
          IN  Segment(<<CompletedUpdate(
                          "Research complete! Found " \o ToString(Len(research.keyPoints))
                            \o " key points about " \o Str(params, "topic") \o ".",
                          "research_results", "Topic research findings", research)>>,
                      "", "done")
        ELSE
          LET outline == generateOutline(params)
          IN  IF Has(outline, "threw")
                THEN Segment(<<FailedUpdate(outline.message)>>, "", "done")
                ELSE Segment(<<CompletedUpdate(
                                 "Created outline with " \o ToString(Len(outline.sections))
                                   \o " sections for a " \o ToString(outline.target_word_count)
                                   \o "-word blog post.",
                                 "blog_outline", "Structured blog post outline", outline)>>,
                             "", "done")

\* a handleTask whose wait blocks instead of yielding: the work of both
\* segments is done before the call returns
handleTaskNoWait(s, context, segment) ==
  LET run(seg) == IF s = "simple" THEN handleTaskSimple(context, seg)
                                  ELSE handleTaskBlog(context, seg)
      first    == run("start")
  IN  IF first.next = "sleep"
        THEN Segment(first.updates \o run("resume").updates, run("resume").escaped, "done")
        ELSE first

handleTask(s, context, segment) ==
  IF s = "simple" THEN handleTaskSimple(context, segment)
                  ELSE handleTaskBlog(context, segment)

(***************************************************************************)
(* executeTask: one segment of handleTask under its try/catch.             *)
(*   returned : the store when executeTask's caller goes on, that is after *)
(*              the updates handleTask made before its first await;        *)
(*   store    : the store when the event loop takes the next callback:     *)
(*              an Error that escaped handleTask reaches the catch block   *)
(*              in a promise continuation, which runs before that;         *)
(*   passed   : every update passed to updateCallback, in call order.      *)
(***************************************************************************)
RECURSIVE ApplyUpdates(_, _, _, _)
ApplyUpdates(store, taskId, updates, now) ==
  IF updates = <<>> THEN store
  ELSE ApplyUpdates(updateCallback(store, taskId, Head(updates), now),
                    taskId, Tail(updates), now)

\* a variant of executeTask without the try/catch
executeTaskNoCatch(s, store, taskId, context, segment, now) ==
  LET h        == handleTask(s, context, segment)
      returned == ApplyUpdates(store, taskId, h.updates, now)
  IN  [returned |-> returned,
       store    |-> returned,
       passed   |-> h.updates,
       next     |-> h.next]

\* a variant of executeTask whose failed update follows every return of
\* handleTask, as a finally block would
executeTaskAlwaysFails(s, store, taskId, context, segment, now) ==
  LET h        == handleTask(s, context, segment)
      caught   == IF h.next = "done" THEN <<FailedUpdate(h.escaped)>> ELSE <<>>
      returned == ApplyUpdates(store, taskId, h.updates, now)
  IN  [returned |-> returned,
       store    |-> ApplyUpdates(returned, taskId, caught, now),
       passed   |-> h.updates \o caught,
       next     |-> h.next]

executeTask(s, store, taskId, context, segment, now) ==
  LET h        == handleTask(s, context, segment)
      caught   == IF h.escaped # "" THEN <<FailedUpdate(h.escaped)>> ELSE <<>>
      returned == ApplyUpdates(store, taskId, h.updates, now)
  IN  [returned |-> returned,
       store    |-> ApplyUpdates(returned, taskId, caught, now),
       passed   |-> h.updates \o caught,
       next     |-> h.next]

(***************************************************************************)
(* The requests the model sends.                                           *)
(***************************************************************************)
\* a request id, as its JSON text
RequestIds == {"7"}

\* an id no tasks/send ever issued
UnknownTaskId == MaxTasks + 1

HeaderInputs ==
  {EmptyObject, "x-api-key" :> "test-api-key", "x-api-key" :> "blog-api-key"}

\* an id that is in no agent card
UnlistedSkill == "subtract"

DataInputs(s, skillId) ==
  IF skillId = "add" THEN {[a |-> 5, b |-> 3]}
  ELSE IF skillId = "research_topic" THEN {[topic |-> "Microservices"]}
  ELSE IF skillId = "generate_outline"
    THEN {[topic |-> "Microservices", key_points |-> <<"Scaling", "Testing">>,
           word_count |-> 1500],
          [topic |-> "Microservices"]}
  ELSE IF s = "simple" THEN {[a |-> 5, b |-> 3]}
  ELSE {[topic |-> "Microservices"]}

\* the message A2AClient.sendTask and BlogClient.sendTask build
ClientMessage(s, skillId, data) ==
  [role |-> "user",
   parts |-> << TextPart((IF s = "simple" THEN "Please execute skill: "
                                          ELSE "Please help with: ") \o skillId),
                DataPart(data) >>]

\* the params of a tasks/send: a client's, one whose message has no data
\* part, one whose message has no parts, and one with no message
SendParamsInputs(s) ==
  UNION {   {[skill |-> k, message |-> ClientMessage(s, k, d)] : d \in DataInputs(s, k)}
         \cup {[skill |-> k, message |-> [role |-> "user"]]}
         \cup (IF k = "add"
                 THEN {[skill |-> k,
                        message |-> [role |-> "user", parts |-> <<TextPart("hello")>>]]}
                 ELSE {})
         \cup (IF k = UnlistedSkill THEN {[skill |-> k]} ELSE {})
         : k \in agentCardSkills(s) \cup {UnlistedSkill}}

GetParamsInputs ==
  UNION {{[taskId |-> t, includeHistory |-> TRUE],
          [taskId |-> t, includeHistory |-> FALSE],
          [taskId |-> t]} : t \in TaskIds \cup {UnknownTaskId}}

SendBodies(s) ==
  {[method |-> "tasks/send", params |-> p, id |-> i] :
     p \in SendParamsInputs(s), i \in RequestIds}

GetBodies ==
  {[method |-> "tasks/get", params |-> p, id |-> i] : p \in GetParamsInputs, i \in RequestIds}

\* what a caller without the key tries: one request of each kind
RejectedBodies(s) ==
  LET k == IF s = "simple" THEN "add" ELSE "research_topic"
      d == IF s = "simple" THEN [a |-> 5, b |-> 3] ELSE [topic |-> "Microservices"]
  IN  UNION {{[method |-> "tasks/send",
               params |-> [skill |-> k, message |-> ClientMessage(s, k, d)], id |-> i]}
             \cup {[method |-> "tasks/get", params |-> [taskId |-> t], id |-> i] :
                     t \in TaskIds}
             \cup {[method |-> "tasks/cancel", params |-> [taskId |-> t], id |-> i] :
                     t \in TaskIds}
             : i \in RequestIds}

PostApi(headers, body) == [route |-> "POST /api", headers |-> headers, body |-> body]

(***************************************************************************)
(* Response envelopes.                                                     *)
(***************************************************************************)
\* req.body?.id || null, as JSON text: 0, "" and a missing id are falsy
IdOrNull(body) ==
  IF Has(body, "id") /\ body.id \notin {"0", "\"\"", "null", "false"} THEN body.id ELSE "null"

\* a property whose value is undefined is left out of the JSON text
WithId(envelope, body) ==
  IF Has(body, "id") THEN SetField(envelope, "id", body.id) ELSE envelope

ErrorEnvelope(code, message) ==
  [jsonrpc |-> "2.0", error |-> [code |-> code, message |-> message]]

ResultEnvelope(result) == [jsonrpc |-> "2.0", result |-> result]

Response(status, envelope) == [status |-> status, body |-> envelope]

\* a tasks/send that answers a task that has already failed with an error
\* envelope
SendResponseErrorIfFailed(envelope, history) ==
  IF envelope.result.status.state = "failed"
    THEN [status |-> 500,
          body |-> [jsonrpc |-> "2.0", id |-> envelope.id,
                    error |-> [code |-> -32603,
                               message |-> envelope.result.status.message.parts[1].text]],
          history |-> history]
    ELSE [status |-> 200, body |-> envelope, history |-> history]

\* the response of tasks/send, with the history the record has when res.json
\* runs (the history is not part of the envelope)
SendResponse(envelope, history) ==
  [status |-> 200, body |-> envelope, history |-> history]

(***************************************************************************)
(* The initial state: the process has started, no request has come.        *)
(***************************************************************************)
\* new A2AClient(agentUrl, apiKey), new BlogClient(agentUrl, apiKey): no
\* agent card yet, no call running
NewClient ==
  [agentCard |-> <<>>, pc |-> "idle", skillId |-> "", data |-> EmptyObject,
   task |-> <<>>, taskId |-> 0, startTime |-> 0, maxWaitMs |-> 0,
   pollIntervalMs |-> 0, issuedAt |-> 0, wakeAt |-> 0, error |-> ""]

Init ==
  /\ client = NewClient
  /\ server \in Servers
  /\ tasks = EmptyObject
  /\ exec = EmptyObject
  /\ sink = EmptyObject
  /\ clock = 0
  /\ req = [route |-> "none"]
  /\ resp = [status |-> 0]

(***************************************************************************)
(* POST /api stopped by authenticateApiKey.                                *)
(***************************************************************************)
AuthReject(headers, body) ==
  /\ ~authenticateApiKey(server, headers)
  /\ req' = PostApi(headers, body)
  /\ resp' = Response(401, SetField(ErrorEnvelope(-32001, AuthErrorMessage(server)),
                                    "id", IdOrNull(body)))
  /\ UNCHANGED <<server, tasks, exec, sink, clock, client>>

(***************************************************************************)
(* The switch on the method of an authenticated POST /api.                 *)
(***************************************************************************)
\* a switch whose default branch is missing its case labels: every other
\* method runs the tasks/get branch
MethodCaseGetByDefault(body) ==
  IF Has(body, "method") /\ body.method = "tasks/send" THEN "tasks/send" ELSE "tasks/get"

\* switch (method): the branch that runs
MethodCase(body) ==
  IF Has(body, "method") /\ body.method \in {"tasks/send", "tasks/get"}
    THEN body.method
    ELSE "default"

(***************************************************************************)
(* tasks/send: the record is stored, executeTask is called and not         *)
(* awaited, and res.json serialises the task object as it is when          *)
(* executeTask's call returns.                                             *)
(***************************************************************************)
\* a uuidv4 that issues the same id again
uuidv4Reuses(store) == CHOOSE id \in TaskIds : \A other \in TaskIds : id <= other

\* uuidv4(): an id that is not in use; ids are opaque, so they are named
\* in the order of their issue
uuidv4(store) ==
  CHOOSE id \in TaskIds \ DOMAIN store : \A other \in TaskIds \ DOMAIN store : id <= other

NewTask(taskId, now) ==
  [id |-> taskId,
   status |-> [state |-> "submitted", timestamp |-> now],
   artifacts |-> <<>>]

MessageOf(params) == IF Has(params, "message") THEN params.message ELSE Undefined

ContextOf(params) ==
  IF Has(params, "skill")
    THEN [skillId |-> params.skill, userMessage |-> MessageOf(params)]
    ELSE [userMessage |-> MessageOf(params)]

TasksSend(headers, body) ==
  /\ authenticateApiKey(server, headers)
  /\ MethodCase(body) = "tasks/send"
  /\ Has(body, "params")
  /\ TaskIds \ DOMAIN tasks # {}
  /\ LET taskId == uuidv4(tasks)
         now == clock
     IN
       LET context == ContextOf(body.params)
           stored  == (taskId :> [task |-> NewTask(taskId, clock),
                                  history |-> <<MessageOf(body.params)>>]) @@ tasks
           run     == executeTask(server, stored, taskId, context, "start", now)
       IN  /\ tasks' = run.store
           /\ exec' = (taskId :> [pc |-> run.next, context |-> context]) @@ exec
           /\ sink' = (taskId :> run.passed) @@ sink
           /\ req' = PostApi(headers, body)
           /\ resp' = SendResponse(WithId(ResultEnvelope(run.returned[taskId].task), body),
                                   run.returned[taskId].history)
  /\ UNCHANGED <<server, clock>>

(***************************************************************************)
(* The setTimeout of a capability fires and handleTask runs to its end.    *)
(***************************************************************************)
TimerFires(taskId) ==
  /\ taskId \in DOMAIN exec
  /\ exec[taskId].pc = "sleep"
  /\ LET run == executeTask(server, tasks, taskId, exec[taskId].context, "resume", clock)
     IN  /\ tasks' = run.store
         /\ exec' = [exec EXCEPT ![taskId].pc = run.next]
         /\ sink' = [sink EXCEPT ![taskId] = @ \o run.passed]
  /\ UNCHANGED <<server, clock, req, resp, client>>

(***************************************************************************)
(* tasks/get.                                                              *)
(***************************************************************************)
\* a result object that gets the history whatever includeHistory is
GetResultObjectAlwaysHistory(taskData, includeHistory) ==
  SetField(taskData.task, "history", taskData.history)

\* const result = { ...taskData.task }; if (includeHistory) result.history = ...
GetResultObject(taskData, includeHistory) ==
  IF includeHistory
    THEN SetField(taskData.task, "history", taskData.history)
    ELSE taskData.task

\* a tasks/get branch without the if (!taskData) return: an id that is not
\* stored is answered with an empty result
GetResultNoLookupCheck(store, params) ==
  IF Has(params, "taskId") /\ params.taskId \in DOMAIN store
    THEN Response(200, ResultEnvelope(store[params.taskId].task))
    ELSE Response(200, ResultEnvelope(EmptyObject))

\* the status and the envelope (without its id) of the tasks/get branch
GetResult(store, params) ==
  LET found          == Has(params, "taskId") /\ params.taskId \in DOMAIN store
      includeHistory == Has(params, "includeHistory") /\ params.includeHistory
  IN  IF ~found
        THEN Response(404, ErrorEnvelope(-32002, "Task not found"))
        ELSE Response(200, ResultEnvelope(GetResultObject(store[params.taskId],
                                                          includeHistory)))

\* a tasks/get branch without the copy: const result = taskData.task, so
\* that result.history = taskData.history writes into the stored task
GetStoreNoCopy(store, params) ==
  IF /\ Has(params, "taskId") /\ params.taskId \in DOMAIN store
     /\ Has(params, "includeHistory") /\ params.includeHistory
    THEN [store EXCEPT ![params.taskId].task =
            SetField(@, "history", store[params.taskId].history)]
    ELSE store

\* the store after the tasks/get branch: tasks.get reads, and the history
\* is assigned to result, which is a copy ({ ...taskData.task }) of the task
GetStore(store, params) == store

TasksGet(headers, body) ==
  /\ authenticateApiKey(server, headers)
  /\ MethodCase(body) = "tasks/get"
  /\ Has(body, "params")
  /\ LET answer == GetResult(tasks, body.params)
     IN  resp' = Response(answer.status, WithId(answer.body, body))
  /\ req' = PostApi(headers, body)
  /\ tasks' = GetStore(tasks, body.params)
  /\ UNCHANGED <<server, exec, sink, clock>>

(***************************************************************************)
(* The default branch of the switch.                                       *)
(***************************************************************************)
MethodNotFound(headers, body) ==
  /\ authenticateApiKey(server, headers)
  /\ MethodCase(body) = "default"
  /\ req' = PostApi(headers, body)
  /\ resp' = Response(404, WithId(ErrorEnvelope(-32601, "Method not found"), body))
  /\ UNCHANGED <<server, tasks, exec, sink, clock, client>>

(***************************************************************************)
(* The catch of the dispatcher: tasks/send and tasks/get destructure       *)
(* params, which throws a TypeError when the request has no params.        *)
(***************************************************************************)
DestructureFault(method) ==
  "Cannot destructure property '" \o (IF method = "tasks/send" THEN "skill" ELSE "taskId")
    \o "' of 'params' as it is undefined."

\* the error member of the 500 envelope
InternalErrorOf(s, message) ==
  IF s = "simple"
    THEN [code |-> -32603, message |-> "Internal error", data |-> message]
    ELSE [code |-> -32603, message |-> message]

InternalError(headers, body) ==
  /\ authenticateApiKey(server, headers)
  /\ MethodCase(body) \in {"tasks/send", "tasks/get"}
  /\ ~Has(body, "params")
  /\ req' = PostApi(headers, body)
  /\ resp' = Response(500, WithId([jsonrpc |-> "2.0",
                                   error |-> InternalErrorOf(server,
                                               DestructureFault(MethodCase(body)))], body))
  /\ UNCHANGED <<server, tasks, exec, sink, clock, client>>

(***************************************************************************)
(* A POST /api without a body.  express.json() of express 4 leaves         *)
(* req.body = {} then, and the switch takes its default branch; express 5  *)
(* leaves req.body undefined, the destructuring in the handler's first     *)
(* line (which is not inside the try) throws, and express's own error      *)
(* handler answers.  npm install express picks either.                     *)
(***************************************************************************)
ExpressVersions == {4, 5}

NoBodyRequest(headers) == [route |-> "POST /api", headers |-> headers]

\* express's final handler: status 500 and an HTML page, no envelope
ExpressErrorPage(message) == [status |-> 500, html |-> "TypeError: " \o message]

NoBody(headers, version) ==
  /\ authenticateApiKey(server, headers)
  /\ req' = NoBodyRequest(headers)
  /\ resp' = IF version = 4
               THEN Response(404, ErrorEnvelope(-32601, "Method not found"))
               ELSE ExpressErrorPage(
                      "Cannot destructure property 'method' of 'req.body' as it is undefined.")
  /\ UNCHANGED <<server, tasks, exec, sink, clock, client>>

(***************************************************************************)
(* The wall clock advances.  The deadline check of waitForCompletion runs  *)
(* in the turn that read startTime or in the turn of the timer that woke   *)
(* the loop: no time passes before it.                                     *)
(***************************************************************************)
Tick ==
  /\ clock < MaxClock
  /\ client.pc # "check"
  /\ clock' = clock + 1
  /\ UNCHANGED <<server, tasks, exec, sink, req, resp, client>>

(***************************************************************************)
(* GET /.well-known/agent.json.                                            *)
(***************************************************************************)
\* the agent card, with the members the clients read
agentCard(s) ==
  IF s = "simple"
    THEN [name |-> "Simple Math Agent",
          skills |-> <<[id |-> "add", name |-> "Addition"]>>]
    ELSE [name |-> "Blog Assistant Agent",
          skills |-> <<[id |-> "research_topic", name |-> "Topic Research"],
                       [id |-> "generate_outline", name |-> "Generate Blog Outline"]>>]

CardRequest == [route |-> "GET /.well-known/agent.json"]

\* app.get('/.well-known/agent.json'): res.json(agentCard), no key needed
AgentCardGet ==
  /\ req' = CardRequest
  /\ resp' = Response(200, agentCard(server))
  /\ UNCHANGED <<server, tasks, exec, sink, clock, client>>

(***************************************************************************)
(* The clients.  A2AClient is the math agent's, BlogClient the blog        *)
(* agent's.  A call of the client runs in steps, one per stretch of code   *)
(* between two awaits that wait; the request of a fetch, its handling by   *)
(* the agent and the continuation after the await are one step.            *)
(*   client.pc: "idle"      no call is running                             *)
(*              "sendTask"  sendTask has been called                       *)
(*              "sent"      sendTask has returned client.task              *)
(*              "check"     waitForCompletion is at the top of its loop    *)
(*              "poll"      the deadline check passed, getTask is called   *)
(*              "sleeping"  waitForCompletion waits for its setTimeout     *)
(*              "returned"  waitForCompletion has returned client.task     *)
(*              "threw"     the call has thrown Error(client.error)        *)
(***************************************************************************)
\* the headers sendRequest sets that the agent reads
ClientHeaders(s) == "x-api-key" :> ValidApiKey(s)

\* Date.now().toString(), as JSON text
RequestIdAt(now) == "\"" \o ToString(now) \o "\""

\* the body sendRequest posts
RpcRequest(method, params, now) ==
  [jsonrpc |-> "2.0", method |-> method, params |-> params, id |-> RequestIdAt(now)]

\* sendRequest after the response has come: throws on an error envelope,
\* returns result.result otherwise
sendRequest(response) ==
  IF Has(response.body, "error")
    THEN Thrown("RPC Error: " \o response.body.error.message)
    ELSE [result |-> response.body.result]

\* this.agentCard.skills.find(s => s.id === skillId) finds a skill
SkillFound(card, skillId) == \E i \in 1..Len(card.skills) : card.skills[i].id = skillId

\* the response of the discovery fetch: the agent's, one that is not ok
\* (a proxy's, another server's), or an ok one whose JSON is no agent card
CardResponses(s) ==
  {Response(200, agentCard(s)),
   [status |-> 503, statusText |-> "Service Unavailable"],
   Response(200, [name |-> "Status page"])}

\* discover() after its fetch: this.agentCard is assigned before the two
\* console.log lines read agentCard.name and agentCard.skills.map
discover(c, response) ==
  IF response.status \notin 200..299
    THEN [c EXCEPT !.pc = "threw",
                   !.error = "Failed to fetch agent card: " \o response.statusText]
  ELSE IF ~Has(response.body, "skills")
    THEN [c EXCEPT !.pc = "threw", !.agentCard = <<response.body>>,
                   !.error = "Cannot read properties of undefined (reading 'map')"]
  ELSE [c EXCEPT !.agentCard = <<response.body>>]

\* the fetch reached the agent
FromAgent(s, response) == response = Response(200, agentCard(s))

\* A2AClient.discover() called by the program
Discover(response) ==
  /\ server = "simple"
  /\ client.pc = "idle"
  /\ client' = discover(client, response)
  /\ IF FromAgent(server, response)
       THEN req' = CardRequest /\ resp' = response
       ELSE UNCHANGED <<req, resp>>
  /\ UNCHANGED <<server, tasks, exec, sink, clock>>

\* sendTask(skillId, data) is called
CallSendTask(skillId, data) ==
  /\ client.pc = "idle"
  /\ client' = [client EXCEPT !.pc = "sendTask", !.skillId = skillId, !.data = data]
  /\ UNCHANGED <<server, tasks, exec, sink, clock, req, resp>>

\* A2AClient.sendTask: if (!this.agentCard) await this.discover()
SendTaskDiscovers(response) ==
  /\ server = "simple"
  /\ client.pc = "sendTask"
  /\ client.agentCard = <<>>
  /\ client' = discover(client, response)
  /\ IF FromAgent(server, response)
       THEN req' = CardRequest /\ resp' = response
       ELSE UNCHANGED <<req, resp>>
  /\ UNCHANGED <<server, tasks, exec, sink, clock>>

\* sendTask goes on to its tasks/send: BlogClient.sendTask always does,
\* A2AClient.sendTask when the cached card lists the skill
sendTaskValidates(s, c) ==
  IF s = "simple"
    THEN c.agentCard # <<>> /\ SkillFound(c.agentCard[1], c.skillId)
    ELSE TRUE

\* A2AClient.sendTask: throw new Error(`Unknown skill: ${skillId}`)
SendTaskThrows ==
  /\ server = "simple"
  /\ client.pc = "sendTask"
  /\ client.agentCard # <<>>
  /\ ~sendTaskValidates(server, client)
  /\ client' = [client EXCEPT !.pc = "threw", !.error = "Unknown skill: " \o client.skillId]
  /\ UNCHANGED <<server, tasks, exec, sink, clock, req, resp>>

\* sendTask posts its tasks/send and returns the agent's answer
SendTaskRequests ==
  /\ client.pc = "sendTask"
  /\ sendTaskValidates(server, client)
  /\ TasksSend(ClientHeaders(server),
               RpcRequest("tasks/send",
                          [skill |-> client.skillId,
                           message |-> ClientMessage(server, client.skillId, client.data)],
                          clock))
  /\ LET answer == sendRequest(resp')
     IN  client' = IF Has(answer, "threw")
                     THEN [client EXCEPT !.pc = "threw", !.error = answer.message]
                     ELSE [client EXCEPT !.pc = "sent", !.task = <<answer.result>>]

\* waitForCompletion(taskId, maxWaitMs, pollIntervalMs) is called:
\* const startTime = Date.now().  Times are in ticks of the clock; BlogClient
\* has no pollIntervalMs parameter, its interval is the default of A2AClient.
WaitForCompletion(taskId, maxWaitMs, pollIntervalMs) ==
  /\ \/ client.pc = "sent" /\ taskId = client.task[1].id
     \/ client.pc = "idle" /\ taskId = UnknownTaskId
  /\ client' = [client EXCEPT !.pc = "check", !.taskId = taskId,
                              !.startTime = clock, !.maxWaitMs = maxWaitMs,
                              !.pollIntervalMs = pollIntervalMs]
  /\ UNCHANGED <<server, tasks, exec, sink, clock, req, resp>>

\* the message of the timeout error
TimeoutMessage(s, c) ==
  IF s = "simple"
    THEN "Task " \o ToString(c.taskId) \o " did not complete within "
           \o ToString(c.maxWaitMs) \o "ms"
    ELSE "Task timeout after " \o ToString(c.maxWaitMs) \o "ms"

\* a deadline check that also cancels the task at the agent
checkDeadlineCancels(s, c, store, now) ==
  IF now - c.startTime > c.maxWaitMs
    THEN [client |-> [c EXCEPT !.pc = "threw", !.error = TimeoutMessage(s, c)],
          store  |-> IF c.taskId \in DOMAIN store
                       THEN updateCallback(store, c.taskId, [state |-> "canceled"], now)
                       ELSE store]
    ELSE [client |-> [c EXCEPT !.pc = "poll", !.issuedAt = now], store |-> store]

\* a deadline check that allows one poll interval more
checkDeadlineLenient(s, c, store, now) ==
  IF now - c.startTime > c.maxWaitMs + c.pollIntervalMs
    THEN [client |-> [c EXCEPT !.pc = "threw", !.error = TimeoutMessage(s, c)],
          store  |-> store]
    ELSE [client |-> [c EXCEPT !.pc = "poll", !.issuedAt = now], store |-> store]

\* a deadline check that never throws
checkDeadlineNever(s, c, store, now) ==
  [client |-> [c EXCEPT !.pc = "poll", !.issuedAt = now], store |-> store]

\* the top of the loop: if (Date.now() - startTime > maxWaitMs) throw ...
\* The agent's store is not touched.  When the check passes, getTask is
\* called in the same turn: the request is made, and stamped, at issuedAt.
checkDeadline(s, c, store, now) ==
  IF now - c.startTime > c.maxWaitMs
    THEN [client |-> [c EXCEPT !.pc = "threw", !.error = TimeoutMessage(s, c)],
          store  |-> store]
    ELSE [client |-> [c EXCEPT !.pc = "poll", !.issuedAt = now], store |-> store]

CheckDeadline ==
  /\ client.pc = "check"
  /\ LET after == checkDeadline(server, client, tasks, clock)
     IN  client' = after.client /\ tasks' = after.store
  /\ UNCHANGED <<server, exec, sink, clock, req, resp>>

\* the params of getTask(taskId): A2AClient sends includeHistory too
GetTaskParams(s, taskId) ==
  IF s = "simple" THEN [taskId |-> taskId, includeHistory |-> FALSE]
                  ELSE [taskId |-> taskId]

\* the states waitForCompletion stops polling at
terminalStates(s) ==
  IF s = "simple" THEN {"completed", "failed", "canceled", "rejected"}
                  ELSE {"completed", "failed", "canceled"}

\* the terminal states waitForCompletion throws at
ThrowingStates(s) == IF s = "simple" THEN {"failed", "rejected"} ELSE {"failed"}

\* task.status.message?.parts[0]?.text, "" when there is none
StatusText(task) ==
  IF /\ Has(task.status, "message")
     /\ Len(task.status.message.parts) > 0
     /\ Has(task.status.message.parts[1], "text")
    THEN task.status.message.parts[1].text
    ELSE ""

\* `Task failed: ${... || 'Unknown error'}` of A2AClient, `Task failed: ${...}`
\* of BlogClient
FailureMessage(s, task) ==
  "Task failed: " \o (IF StatusText(task) # "" THEN StatusText(task)
                      ELSE IF s = "simple" THEN "Unknown error" ELSE "undefined")

\* a loop body that takes the error of getTask as 'not yet' and polls again
afterGetTaskRetries(s, c, response, now) ==
  LET answer == sendRequest(response)
  IN  IF Has(answer, "threw")
        THEN [c EXCEPT !.pc = "sleeping", !.wakeAt = now + c.pollIntervalMs]
      ELSE IF answer.result.status.state \in terminalStates(s)
        THEN IF answer.result.status.state \in ThrowingStates(s)
               THEN [c EXCEPT !.pc = "threw", !.error = FailureMessage(s, answer.result)]
               ELSE [c EXCEPT !.pc = "returned", !.task = <<answer.result>>]
      ELSE [c EXCEPT !.pc = "sleeping", !.wakeAt = now + c.pollIntervalMs]

\* the loop's body after the deadline check, given getTask's response
afterGetTask(s, c, response, now) ==
  LET answer == sendRequest(response)
  IN  IF Has(answer, "threw")
        THEN [c EXCEPT !.pc = "threw", !.error = answer.message]
      ELSE IF answer.result.status.state \in terminalStates(s)
        THEN IF answer.result.status.state \in ThrowingStates(s)
               THEN [c EXCEPT !.pc = "threw", !.error = FailureMessage(s, answer.result)]
               ELSE [c EXCEPT !.pc = "returned", !.task = <<answer.result>>]
      ELSE [c EXCEPT !.pc = "sleeping", !.wakeAt = now + c.pollIntervalMs]

\* waitForCompletion polls this agent: the request made at issuedAt is
\* handled, and its response read, now
Poll ==
  /\ client.pc = "poll"
  /\ TasksGet(ClientHeaders(server),
              RpcRequest("tasks/get", GetTaskParams(server, client.taskId), client.issuedAt))
  /\ client' = afterGetTask(server, client, resp', clock)

\* the setTimeout of the loop fires
Wake ==
  /\ client.pc = "sleeping"
  /\ clock >= client.wakeAt
  /\ client' = [client EXCEPT !.pc = "check"]
  /\ UNCHANGED <<server, tasks, exec, sink, clock, req, resp>>

(***************************************************************************)
(* The agent under every kind of request.  The clock stands still here;    *)
(* SpecMath below lets it advance.                                         *)
(***************************************************************************)
Next ==
  \/ \E headers \in HeaderInputs, body \in RejectedBodies(server) : AuthReject(headers, body)
  \/ \E headers \in HeaderInputs, body \in SendBodies(server) :
       TasksSend(headers, body) /\ UNCHANGED client
  \/ \E headers \in HeaderInputs, body \in GetBodies :
       TasksGet(headers, body) /\ UNCHANGED client
  \/ \E taskId \in TaskIds : TimerFires(taskId)

Spec == Init /\ [][Next]_vars

(***************************************************************************)
(* Executions alone: authenticated tasks/send requests and the timers,     *)
(* with the event loop eventually running every setTimeout callback that   *)
(* is due.                                                                 *)
(***************************************************************************)
NextExec ==
  \/ \E headers \in HeaderInputs, body \in SendBodies(server) :
       TasksSend(headers, body) /\ UNCHANGED client
  \/ \E taskId \in TaskIds : TimerFires(taskId)

FairSpec ==
  Init /\ [][NextExec]_vars /\ \A taskId \in TaskIds : WF_vars(TimerFires(taskId))

(***************************************************************************)
(* The math agent with an authenticated A2AClient: add over every pair of  *)
(* Nums, polls, and a clock that advances.                                 *)
(***************************************************************************)
Nums == {-2, 3, 5}

MathHeaders == "x-api-key" :> "test-api-key"

MathSendBodies ==
  {[method |-> "tasks/send",
    params |-> [skill |-> "add",
                message |-> ClientMessage("simple", "add", [a |-> x, b |-> y])],
    id |-> "7"] : x \in Nums, y \in Nums}

MathGetBodies ==
  {[method |-> "tasks/get", params |-> [taskId |-> t, includeHistory |-> FALSE], id |-> "7"] :
     t \in TaskIds}

InitMath == Init /\ server = "simple"

NextMath ==
  \/ \E body \in MathSendBodies : TasksSend(MathHeaders, body) /\ UNCHANGED client
  \/ \E body \in MathGetBodies : TasksGet(MathHeaders, body) /\ UNCHANGED client
  \/ \E taskId \in TaskIds : TimerFires(taskId)
  \/ Tick

SpecMath == InitMath /\ [][NextMath]_vars

(***************************************************************************)
(* The dispatcher under every shape of request: ids that are numbers and   *)
(* strings (0 and "" among them) or missing, requests without params,      *)
(* without a method, without a body, and methods the switch does not know. *)
(***************************************************************************)
\* request ids, as their JSON text
RpcIds == {"7", "0", "\"abc\"", "\"\""}

RpcHeaders(s) == {EmptyObject, "x-api-key" :> ValidApiKey(s)}

RpcSendParams(s) ==
  LET k == IF s = "simple" THEN "add" ELSE "research_topic"
      d == IF s = "simple" THEN [a |-> 5, b |-> 3] ELSE [topic |-> "Microservices"]
  IN  [skill |-> k, message |-> ClientMessage(s, k, d)]

RpcBodies(s) ==
  UNION {   {[method |-> "tasks/send", params |-> RpcSendParams(s), id |-> i],
             [method |-> "tasks/send", id |-> i],
             [method |-> "tasks/get", id |-> i],
             [method |-> "tasks/get", params |-> EmptyObject, id |-> i],
             [method |-> "tasks/cancel", params |-> [taskId |-> 1], id |-> i],
             [id |-> i]}
         \cup {[method |-> "tasks/get", params |-> p, id |-> i] : p \in GetParamsInputs}
         : i \in RpcIds}
  \cup {[method |-> "tasks/send", params |-> [skill |-> RpcSendParams(s).skill], id |-> "7"],
        [method |-> "tasks/get", params |-> [taskId |-> 1]],
        [method |-> "tasks/get"],
        [method |-> "tasks/cancel", params |-> [taskId |-> 1]]}

NextRpc ==
  \/ \E headers \in RpcHeaders(server), body \in RpcBodies(server) : AuthReject(headers, body)
  \/ \E headers \in RpcHeaders(server), body \in RpcBodies(server) :
       TasksSend(headers, body) /\ UNCHANGED client
  \/ \E headers \in RpcHeaders(server), body \in RpcBodies(server) :
       TasksGet(headers, body) /\ UNCHANGED client
  \/ \E headers \in RpcHeaders(server), body \in RpcBodies(server) :
       MethodNotFound(headers, body)
  \/ \E headers \in RpcHeaders(server), body \in RpcBodies(server) :
       InternalError(headers, body)
  \/ \E headers \in RpcHeaders(server), version \in ExpressVersions : NoBody(headers, version)
  \/ AgentCardGet
  \/ \E taskId \in TaskIds : TimerFires(taskId)

SpecRpc == Init /\ [][NextRpc]_vars

(***************************************************************************)
(* waitForCompletion against any agent: the record a poll returns is in    *)
(* any state of the protocol, with a status message or without one.        *)
(***************************************************************************)
TaskStates == {"submitted", "working"} \cup TerminalStates

AgentRecords(taskId) ==
  UNION {{[id |-> taskId, status |-> [state |-> state, timestamp |-> 0], artifacts |-> <<>>],
          [id |-> taskId,
           status |-> [state |-> state, timestamp |-> 0,
                       message |-> AgentMessage("Stopped: " \o state)],
           artifacts |-> <<>>]} : state \in TaskStates}

\* the maxWaitMs of the calls, in ticks of the clock
WaitInputs == 0..MaxClock

\* the pollIntervalMs of the calls, in ticks of the clock: the default of
\* A2AClient, which is the fixed interval of BlogClient, and for A2AClient
\* also 0
DefaultPollIntervalMs == 1

PollIntervalInputs(s) ==
  IF s = "simple" THEN {0, DefaultPollIntervalMs} ELSE {DefaultPollIntervalMs}

\* getTask answered by some agent that has the task
PollAnswered(record) ==
  /\ client.pc = "poll"
  /\ LET body == RpcRequest("tasks/get", GetTaskParams(server, client.taskId),
                            client.issuedAt)
     IN  /\ req' = PostApi(ClientHeaders(server), body)
         /\ resp' = Response(200, WithId(ResultEnvelope(record), body))
  /\ client' = afterGetTask(server, client, resp', clock)
  /\ UNCHANGED <<server, tasks, exec, sink, clock>>

InitWait ==
  /\ server \in Servers
  /\ tasks = EmptyObject
  /\ exec = EmptyObject
  /\ sink = EmptyObject
  /\ clock = 0
  /\ req = [route |-> "none"]
  /\ resp = [status |-> 0]
  /\ client \in {[NewClient EXCEPT !.pc = "check", !.taskId = 1, !.maxWaitMs = w,
                                   !.pollIntervalMs = p] :
                   w \in WaitInputs, p \in PollIntervalInputs(server)}

NextWait ==
  \/ CheckDeadline
  \/ \E record \in AgentRecords(client.taskId) : PollAnswered(record)
  \/ Wake
  \/ Tick

SpecWait == InitWait /\ [][NextWait]_vars

(***************************************************************************)
(* A client and its agent: the client discovers, sends one task and waits  *)
(* for it, while the agent's timers fire and the clock advances.           *)
(***************************************************************************)
ClientSkills(s) == {IF s = "simple" THEN "add" ELSE "research_topic", UnlistedSkill}

NextClient ==
  \/ \E response \in CardResponses(server) : Discover(response)
  \/ \E skillId \in ClientSkills(server) :
       \E data \in DataInputs(server, skillId) : CallSendTask(skillId, data)
  \/ \E response \in CardResponses(server) : SendTaskDiscovers(response)
  \/ SendTaskThrows
  \/ SendTaskRequests
  \/ \E taskId \in TaskIds \cup {UnknownTaskId}, maxWaitMs \in WaitInputs,
        pollIntervalMs \in PollIntervalInputs(server) :
       WaitForCompletion(taskId, maxWaitMs, pollIntervalMs)
  \/ CheckDeadline
  \/ Poll
  \/ Wake
  \/ \E taskId \in TaskIds : TimerFires(taskId)
  \/ Tick

SpecClient == Init /\ [][NextClient]_vars

FairSpecClient ==
  Init /\ [][NextClient]_vars /\ \A taskId \in TaskIds : WF_vars(TimerFires(taskId))

(***************************************************************************)
(* updateCallback taken by itself: besides the agent's own executions, the *)
(* update sink of a task is called with an update that has only a message, *)
(* only artifacts or only a state, and with an id that is not in the       *)
(* store.  In the agents every updateCallback is made for an id that was   *)
(* just stored, so the last case is an input of the function only.         *)
(***************************************************************************)
\* what the caller of updateCallback gets: undefined from the bare return
\* of an id that is not stored, undefined from the end of the body
updateCallbackReturns(store, taskId, update) ==
  IF taskId \notin DOMAIN store THEN Undefined ELSE Undefined

SinkUpdates ==
  {[message |-> AgentMessage("Still there")],
   [artifacts |-> <<[name |-> "note", parts |-> <<TextPart("n")>>]>>],
   [state |-> "working"]}

\* the record the sink is called for directly
SinkTaskIds == {1, UnknownTaskId}

\* the direct calls stop when the sink of the task has taken this many updates
MaxUpdates == MaxTasks + 1

SinkCall(taskId, update) == [route |-> "updateCallback", taskId |-> taskId, update |-> update]

CallUpdateCallback(taskId, update) ==
  /\ taskId \in DOMAIN tasks
       => /\ tasks[taskId].task.status.state \notin TerminalStates
          /\ Len(sink[taskId]) < MaxUpdates
  /\ tasks' = updateCallback(tasks, taskId, update, clock)
  /\ sink' = IF taskId \in DOMAIN sink THEN [sink EXCEPT ![taskId] = Append(@, update)]
                                       ELSE sink
  /\ req' = SinkCall(taskId, update)
  /\ resp' = [returned |-> updateCallbackReturns(tasks, taskId, update)]
  /\ UNCHANGED <<server, exec, clock, client>>

SinkSendBodies(s) == {[method |-> "tasks/send", params |-> RpcSendParams(s), id |-> "7"]}

NextSink ==
  \/ \E body \in SinkSendBodies(server) :
       TasksSend(ClientHeaders(server), body) /\ UNCHANGED client
  \/ \E taskId \in TaskIds : TimerFires(taskId)
  \/ \E taskId \in SinkTaskIds, update \in SinkUpdates : CallUpdateCallback(taskId, update)
  \/ Tick

SpecSink == Init /\ [][NextSink]_vars

(***************************************************************************)
(* waitForCompletion against any agent, with a positive poll interval and  *)
(* an environment that goes on: every getTask is answered, every timer     *)
(* fires, and time passes.  maxWaitMs is less than MaxClock, so that at    *)
(* the last instant of the model's clock the deadline has passed; a sleep  *)
(* that ends after that instant ends with the clock reading it.            *)
(***************************************************************************)
\* the setTimeout of the loop fires after the last instant of the clock
WakeLate ==
  /\ client.pc = "sleeping"
  /\ client.wakeAt > MaxClock
  /\ clock = MaxClock
  /\ client' = [client EXCEPT !.pc = "check"]
  /\ UNCHANGED <<server, tasks, exec, sink, clock, req, resp>>

InitWaitFair ==
  /\ InitWait
  /\ client.maxWaitMs < MaxClock
  /\ client.pollIntervalMs > 0

NextWaitFair ==
  \/ CheckDeadline
  \/ \E record \in AgentRecords(client.taskId) : PollAnswered(record)
  \/ Wake
  \/ WakeLate
  \/ Tick

FairSpecWait ==
  /\ InitWaitFair /\ [][NextWaitFair]_vars
  /\ WF_vars(CheckDeadline)
  /\ WF_vars(\E record \in AgentRecords(client.taskId) : PollAnswered(record))
  /\ WF_vars(Wake) /\ WF_vars(WakeLate) /\ WF_vars(Tick)

(***************************************************************************)
(* Vocabulary of the properties.                                           *)
(***************************************************************************)
StateOf(taskId) == tasks[taskId].task.status.state

Last(seq) == seq[Len(seq)]

\* r is a POST /api that carries the agent's key
Authenticated(r) ==
  /\ r.route = "POST /api"
  /\ Has(r.headers, "x-api-key")
  /\ r.headers["x-api-key"] = ValidApiKey(server)

\* r is an authenticated tasks/send with a params object
IsSend(r) ==
  /\ Authenticated(r) /\ Has(r, "body")
  /\ MethodCase(r.body) = "tasks/send" /\ Has(r.body, "params")

\* r is an authenticated tasks/get of taskId
IsGetOf(r, taskId) ==
  /\ Authenticated(r) /\ Has(r, "body")
  /\ MethodCase(r.body) = "tasks/get" /\ Has(r.body, "params")
  /\ Has(r.body.params, "taskId") /\ r.body.params.taskId = taskId

\* the state a tasks/get of taskId returned, "" when <<r, p>> is no such exchange
PolledState(r, p, taskId) ==
  IF IsGetOf(r, taskId) /\ p.status = 200 THEN p.body.result.status.state ELSE ""

\* the skill of the task is one of the agent card
Listed(context) == Has(context, "skillId") /\ context.skillId \in agentCardSkills(server)

\* the order of the state graph: submitted, working, then the terminal states
Rank(state) == IF state = "submitted" THEN 0 ELSE IF state = "working" THEN 1 ELSE 2

Advances(from, to) ==
  IF from \in TerminalStates THEN to = from ELSE Rank(from) <= Rank(to)

\* the artifacts of a sequence of updates, in the order of the updates
RECURSIVE Emitted(_)
Emitted(updates) ==
  IF updates = <<>> THEN <<>>
  ELSE (IF Has(Head(updates), "artifacts") THEN Head(updates).artifacts ELSE <<>>)
       \o Emitted(Tail(updates))

\* the description of the fault the work unit of a task runs into, "" for none
FaultOf(context) ==
  IF context.userMessage = Undefined
    THEN "Cannot read properties of undefined (reading 'parts')"
  ELSE IF ~Has(context.userMessage, "parts")
    THEN "Cannot read properties of undefined (reading 'find')"
  ELSE IF /\ server = "blog"
          /\ IsSkill(context, "generate_outline")
          /\ ~Has(ParamsOf(context.userMessage), "key_points")
    THEN "Cannot read properties of undefined (reading 'length')"
  ELSE ""

(***************************************************************************)
(* C1.  Every authenticated tasks/send that names a skill and carries a    *)
(* message is answered with a Task Record in state submitted, and the      *)
(* task's history has length 1 when the response is produced.              *)
(* The code does not do this: executeTask runs handleTask up to its first  *)
(* waiting await before res.json, and updateCallback has no await.         *)
(***************************************************************************)
SendReturnsSubmitted ==
  (IsSend(req) /\ Has(req.body.params, "skill") /\ Has(req.body.params, "message"))
    => /\ resp.body.result.status.state = "submitted"
       /\ Len(resp.history) = 1

(***************************************************************************)
(* C2.  Every task created by tasks/send eventually reaches a terminal     *)
(* state, given that the timer of its capability eventually fires.         *)
(***************************************************************************)
EveryTaskTerminates ==
  \A taskId \in TaskIds :
    (taskId \in DOMAIN tasks)
      ~> (taskId \in DOMAIN tasks /\ StateOf(taskId) \in TerminalStates)

TaskCompletedAfterWait ==
  \E taskId \in DOMAIN tasks :
    /\ exec[taskId].pc = "done"
    /\ StateOf(taskId) = "completed"
    /\ Len(sink[taskId]) = 2

(***************************************************************************)
(* C3.  The states successive tasks/get calls return for one task id only  *)
(* move forward along submitted, working, terminal; after a poll returned  *)
(* a terminal state the next poll of that id returns the same state.       *)
(***************************************************************************)
PollsOnlyAdvance ==
  [][\A taskId \in TaskIds :
       LET before == PolledState(req, resp, taskId)
           after  == PolledState(req', resp', taskId)
       IN  (before # "" /\ after # "") => Advances(before, after)]_vars

PollSawTerminalAfterWorking ==
  \E taskId \in DOMAIN tasks :
    /\ PolledState(req, resp, taskId) \in TerminalStates
    /\ Len(sink[taskId]) = 2
    /\ sink[taskId][1].state = "working"

(***************************************************************************)
(* C4.  Once a task is terminal, its artifacts, in the store and in every  *)
(* tasks/get result, are exactly the artifacts passed to the update sink,  *)
(* in the order they were passed.                                          *)
(***************************************************************************)
ArtifactsAsEmitted ==
  \A taskId \in DOMAIN tasks :
    /\ StateOf(taskId) \in TerminalStates
         => tasks[taskId].task.artifacts = Emitted(sink[taskId])
    /\ PolledState(req, resp, taskId) \in TerminalStates
         => resp.body.result.artifacts = Emitted(sink[taskId])

PollSawArtifactOtherInFlight ==
  \E taskId \in DOMAIN tasks, other \in DOMAIN tasks :
    /\ other # taskId
    /\ exec[other].pc = "sleep"
    /\ PolledState(req, resp, taskId) = "completed"
    /\ Len(resp.body.result.artifacts) = 1

(***************************************************************************)
(* C5.  The update sink of every execution receives exactly one update     *)
(* with a terminal state, and that update is the last one applied.         *)
(***************************************************************************)
OneTerminalUpdateLast ==
  \A taskId \in DOMAIN sink :
    LET updates == sink[taskId]
    IN  /\ \A i \in 1..(Len(updates) - 1) : updates[i].state \notin TerminalStates
        /\ exec[taskId].pc = "done"
             => /\ Len(updates) >= 1
                /\ Last(updates).state \in TerminalStates
                /\ StateOf(taskId) = Last(updates).state

ExecutionEndedAfterProgress ==
  \E taskId \in DOMAIN sink :
    /\ exec[taskId].pc = "done"
    /\ Len(sink[taskId]) = 2
    /\ Last(sink[taskId]).state \in TerminalStates

(***************************************************************************)
(* C6.  When the work unit of a task throws (the message has no parts, or  *)
(* generate_outline gets no key_points), a failed update whose message is  *)
(* "Error: " and the fault description is applied, and the record ends in  *)
(* failed.                                                                 *)
(***************************************************************************)
FaultEndsFailed ==
  \A taskId \in DOMAIN tasks :
    LET fault == FaultOf(exec[taskId].context)
    IN  (fault # "" /\ exec[taskId].pc = "done")
          => /\ StateOf(taskId) = "failed"
             /\ tasks[taskId].task.status.message = AgentMessage("Error: " \o fault)
             /\ Last(sink[taskId]).state = "failed"
             /\ Last(tasks[taskId].history) = AgentMessage("Error: " \o fault)

FaultAfterWorking ==
  \E taskId \in DOMAIN tasks :
    /\ FaultOf(exec[taskId].context) # ""
    /\ exec[taskId].pc = "done"
    /\ Len(sink[taskId]) = 2
    /\ StateOf(taskId) = "failed"

(***************************************************************************)
(* C7.  A task sent with a skill that is not in the agent card is failed,  *)
(* never was working (no working update was passed, no response showed     *)
(* working) and no capability work is done for it: no timer, no artifact.  *)
(***************************************************************************)
UnlistedNeverWorks ==
  \A taskId \in DOMAIN tasks :
    ~Listed(exec[taskId].context)
      => /\ StateOf(taskId) = "failed"
         /\ \A i \in 1..Len(sink[taskId]) : sink[taskId][i].state # "working"
         /\ exec[taskId].pc = "done"
         /\ tasks[taskId].task.artifacts = <<>>
         /\ PolledState(req, resp, taskId) \in {"", "failed"}
         /\ (IsSend(req) /\ resp.body.result.id = taskId)
              => resp.body.result.status.state # "working"

UnlistedFailed ==
  \E taskId \in DOMAIN tasks :
    /\ ~Listed(exec[taskId].context)
    /\ StateOf(taskId) = "failed"
    /\ IsSend(req) /\ resp.body.result.id = taskId

(***************************************************************************)
(* C8.  A task sent with an unregistered skill id and a message with parts *)
(* is failed, its status message is "Unknown skill: " and the skill id,    *)
(* and its artifacts are empty, in the store and in every tasks/get.       *)
(***************************************************************************)
UnlistedNamesSkill ==
  \A taskId \in DOMAIN tasks :
    LET context == exec[taskId].context
        expected == AgentMessage("Unknown skill: " \o context.skillId)
    IN  (~Listed(context) /\ Has(context, "skillId") /\ FaultOf(context) = "")
          => /\ StateOf(taskId) = "failed"
             /\ tasks[taskId].task.status.message = expected
             /\ tasks[taskId].task.artifacts = <<>>
             /\ PolledState(req, resp, taskId) # ""
                  => /\ resp.body.result.status.state = "failed"
                     /\ resp.body.result.status.message = expected
                     /\ resp.body.result.artifacts = <<>>

PollSawUnknownSkill ==
  \E taskId \in DOMAIN tasks :
    /\ exec[taskId].context.skillId = UnlistedSkill
    /\ FaultOf(exec[taskId].context) = ""
    /\ PolledState(req, resp, taskId) = "failed"
    /\ resp.body.result.status.message.parts[1].text = "Unknown skill: subtract"

(***************************************************************************)
(* C9.  add with numbers a and b ends in completed with exactly one        *)
(* artifact, whose data part is {result: a + b}; 5 and 3 give 8.           *)
(***************************************************************************)
AddResult ==
  \A taskId \in DOMAIN tasks :
    LET data == exec[taskId].context.userMessage.parts[2].data
    IN  exec[taskId].pc = "done"
          => /\ StateOf(taskId) = "completed"
             /\ Len(tasks[taskId].task.artifacts) = 1
             /\ tasks[taskId].task.artifacts[1].parts = <<DataPart([result |-> data.a + data.b])>>
             /\ (data.a = 5 /\ data.b = 3)
                  => tasks[taskId].task.artifacts[1].parts[1].data.result = 8

FiveAndThreeAdded ==
  \E taskId \in DOMAIN tasks :
    /\ exec[taskId].context.userMessage.parts[2].data = [a |-> 5, b |-> 3]
    /\ StateOf(taskId) = "completed"
    /\ tasks[taskId].task.artifacts[1].parts[1].data.result = 8

(***************************************************************************)
(* C10.  A POST /api whose key is missing or is not the shared secret is   *)
(* answered with the error envelope of code -32001 and changes nothing:    *)
(* the store and the executions are as before, whatever the request asks.  *)
(***************************************************************************)
Unauthenticated(r) ==
  /\ r.route = "POST /api"
  /\ ~(Has(r.headers, "x-api-key") /\ r.headers["x-api-key"] = ValidApiKey(server))

UnauthenticatedHasNoEffect ==
  [][((req' # req \/ resp' # resp) /\ Unauthenticated(req'))
       => /\ resp'.status = 401
          /\ Has(resp'.body, "error") /\ resp'.body.error.code = -32001
          /\ tasks' = tasks
          /\ exec' = exec
          /\ sink' = sink]_vars

RejectedWithTasksStored ==
  /\ Unauthenticated(req)
  /\ resp.status = 401
  /\ \E taskId \in DOMAIN tasks : exec[taskId].pc = "sleep"

(***************************************************************************)
(* Vocabulary of the dispatcher's properties.                              *)
(***************************************************************************)
\* the step handled a request: the last exchange is a new one
Handled == req' # req \/ resp' # resp

\* r is an authenticated tasks/get with a params object
IsGet(r) ==
  /\ Authenticated(r) /\ Has(r, "body")
  /\ MethodCase(r.body) = "tasks/get" /\ Has(r.body, "params")

\* the record r's params name, in store
Stored(r, store) ==
  Has(r.body.params, "taskId") /\ r.body.params.taskId \in DOMAIN store

\* p is an error envelope with this status, code and message
IsError(p, status, code, message) ==
  /\ p.status = status
  /\ Has(p, "body") /\ Has(p.body, "error") /\ ~Has(p.body, "result")
  /\ p.body.jsonrpc = "2.0"
  /\ p.body.error.code = code
  /\ p.body.error.message = message

\* C11: every response envelope carries the id of the request it answers,
\* whatever string or number that id is.
ResponseEchoesId ==
  (req.route = "POST /api" /\ Has(req, "body") /\ Has(req.body, "id"))
    => (Has(resp, "body") /\ Has(resp.body, "id") /\ resp.body.id = req.body.id)

\* C12: an authenticated tasks/get of a task id that is not in the store is
\* answered with the error -32002 "Task not found", never with a result,
\* and stores no record.
UnknownGetIsNotFound ==
  [][(Handled /\ IsGet(req') /\ ~Stored(req', tasks))
       => /\ IsError(resp', 404, -32002, "Task not found")
          /\ tasks' = tasks /\ exec' = exec /\ sink' = sink]_vars

\* a tasks/get of an id that was never issued is answered while the store
\* holds records
UnknownGetAnswered ==
  /\ IsGetOf(req, UnknownTaskId)
  /\ IsError(resp, 404, -32002, "Task not found")
  /\ DOMAIN tasks # {}

\* C13: an authenticated request whose method is neither tasks/send nor
\* tasks/get is answered with the error -32601 "Method not found" and
\* leaves the store as it was.
OtherMethodNotFound ==
  [][(/\ Handled /\ Authenticated(req') /\ Has(req', "body")
      /\ Has(req'.body, "method") /\ req'.body.method \notin {"tasks/send", "tasks/get"})
       => /\ IsError(resp', 404, -32601, "Method not found")
          /\ tasks' = tasks /\ exec' = exec /\ sink' = sink]_vars

\* a tasks/cancel of a task that runs is answered, and the task still runs
CancelOfRunningTaskAnswered ==
  /\ Authenticated(req) /\ Has(req, "body") /\ Has(req.body, "method")
  /\ req.body.method = "tasks/cancel"
  /\ IsError(resp, 404, -32601, "Method not found")
  /\ 1 \in DOMAIN tasks /\ StateOf(1) = "working" /\ exec[1].pc = "sleep"

\* seq is a prefix of whole
IsPrefix(seq, whole) ==
  Len(seq) <= Len(whole) /\ \A i \in 1..Len(seq) : seq[i] = whole[i]

\* C14: the result of a tasks/get has a history exactly when includeHistory
\* is true; when it is false or left out the result has id, status and
\* artifacts and no history.
HistoryOnlyOnRequest ==
  (IsGet(req) /\ resp.status = 200)
    => LET params == req.body.params
           result == resp.body.result
       IN  /\ Has(result, "history")
                <=> (Has(params, "includeHistory") /\ params.includeHistory = TRUE)
           /\ DOMAIN result \ {"history"} = {"id", "status", "artifacts"}
           /\ result.id = params.taskId
           /\ Has(result, "history") => IsPrefix(result.history, tasks[params.taskId].history)

\* a poll with includeHistory of a finished task showed its whole history
HistoryReturned ==
  /\ \E taskId \in TaskIds : IsGetOf(req, taskId)
  /\ resp.status = 200
  /\ req.body.params = [taskId |-> req.body.params.taskId, includeHistory |-> TRUE]
  /\ Has(resp.body.result, "history") /\ Len(resp.body.result.history) = 3

\* C15: an authenticated request whose handling fails (a request without a
\* body, a tasks/send or tasks/get without params) is answered with the
\* internal error envelope, code -32603, that carries a diagnostic string.
FailureIsInternalError ==
  (/\ Authenticated(req)
   /\ \/ ~Has(req, "body")
      \/ (MethodCase(req.body) \in {"tasks/send", "tasks/get"} /\ ~Has(req.body, "params")))
    => /\ resp.status = 500
       /\ Has(resp, "body") /\ Has(resp.body, "error")
       /\ resp.body.error.code = -32603
       /\ \/ Has(resp.body.error, "data") /\ resp.body.error.data # ""
          \/ resp.body.error.message \notin {"", "Internal error"}

PollOf(taskId) == [method |-> "tasks/get", params |-> [taskId |-> taskId], id |-> "7"]

(***************************************************************************)
(* C17.  tasks/send does not wait for the execution: for add (and every    *)
(* listed skill sent with a well-formed message) the response shows a      *)
(* non-terminal state and the task is non-terminal, waiting for its timer, *)
(* when the handler is done; while a task waits, a tasks/get of it and,    *)
(* ids permitting, a further tasks/send can be served.                     *)
(***************************************************************************)
SendDoesNotWait ==
  /\ [][\A taskId \in TaskIds :
          (/\ taskId \notin DOMAIN tasks /\ taskId \in DOMAIN tasks'
           /\ Listed(exec'[taskId].context)
           /\ PartsFault(exec'[taskId].context.userMessage) = "")
            => /\ resp'.status = 200
               /\ resp'.body.result.id = taskId
               /\ resp'.body.result.status.state \notin TerminalStates
               /\ tasks'[taskId].task.status.state \notin TerminalStates
               /\ exec'[taskId].pc = "sleep"]_vars
  /\ [](\A taskId \in DOMAIN exec :
          exec[taskId].pc = "sleep"
            => /\ tasks[taskId].task.status.state \notin TerminalStates
               /\ ENABLED TasksGet(ClientHeaders(server), PollOf(taskId))
               /\ (TaskIds \ DOMAIN tasks # {})
                    => \E body \in SendBodies(server) : ENABLED TasksSend(ClientHeaders(server), body))

\* while the first task waits for its timer a second tasks/send was served
\* and then a tasks/get of the first, which shows it working
RequestsServedWhileRunning ==
  /\ 1 \in DOMAIN tasks /\ 2 \in DOMAIN tasks
  /\ exec[1].pc = "sleep" /\ Listed(exec[1].context)
  /\ PolledState(req, resp, 1) = "working"

(***************************************************************************)
(* Vocabulary of the clients' properties.                                  *)
(***************************************************************************)
\* the record the last poll returned, when it returned one
Polled == resp.body.result

PolledRecord == resp.status = 200 /\ Has(resp, "body") /\ Has(resp.body, "result")

\* waitForCompletion has thrown its timeout error
TimedOut == client.pc = "threw" /\ client.error = TimeoutMessage(server, client)

(***************************************************************************)
(* C18.  When a poll of waitForCompletion returns a record in a terminal   *)
(* state, waitForCompletion returns the record if the state is completed   *)
(* and throws an error with the agent's status message if it is failed,    *)
(* rejected or canceled.                                                   *)
(* The code does not do this: both clients return a canceled record, and   *)
(* BlogClient goes on polling a rejected one.                              *)
(***************************************************************************)
TerminalPollSettles ==
  (PolledRecord /\ Polled.status.state \in TerminalStates)
    => IF Polled.status.state = "completed"
         THEN client.pc = "returned" /\ client.task = <<Polled>>
         ELSE /\ client.pc = "threw"
              /\ Has(Polled.status, "message")
                   => client.error = "Task failed: " \o StatusText(Polled)

(***************************************************************************)
(* C19.  waitForCompletion throws its timeout error only at the deadline   *)
(* check at the top of its loop, when more than maxWaitMs has passed.      *)
(* Throwing it sends no request and leaves the agent's records and         *)
(* executions as they are; a task that is not terminal then still has its  *)
(* timer and reaches a terminal state afterwards.                          *)
(***************************************************************************)
TimeoutIsLocal ==
  /\ [][(~TimedOut /\ TimedOut')
          => /\ client.pc = "check"
             /\ clock - client.startTime > client.maxWaitMs
             /\ UNCHANGED <<tasks, exec, sink, req, resp>>]_vars
  /\ [][(client.pc = "check" /\ clock - client.startTime > client.maxWaitMs /\ client' # client)
          => TimedOut']_vars
  /\ \A taskId \in TaskIds :
       (TimedOut /\ taskId \in DOMAIN tasks)
         ~> (taskId \in DOMAIN tasks /\ StateOf(taskId) \in TerminalStates)

\* the timeout was thrown while the task of the call was still working
TimedOutWhileWorking ==
  /\ TimedOut
  /\ client.taskId \in DOMAIN tasks
  /\ StateOf(client.taskId) = "working" /\ exec[client.taskId].pc = "sleep"

(***************************************************************************)
(* C20.  A sendTask of a skill id that the agent card does not list throws *)
(* "Unknown skill" without posting a tasks/send, so that no record is      *)
(* created; without a cached card it fetches the card first.               *)
(* BlogClient.sendTask does not do this: it has no card and posts every    *)
(* skill id.                                                               *)
(***************************************************************************)
UnlistedSkillIsNotSent ==
  [][(/\ client.pc = "sendTask"
      /\ client.skillId \notin agentCardSkills(server)
      /\ client' # client)
       => /\ tasks' = tasks
          /\ ~IsSend(req') \/ req' = req
          /\ \/ client'.pc = "threw"
             \/ client.agentCard = <<>> /\ client'.agentCard # <<>> /\ client'.pc = "sendTask"]_vars

HistoryAndArtifactsOnlyGrow ==
  /\ [](\A taskId \in DOMAIN tasks :
          /\ Len(tasks[taskId].history) >= 1
          /\ tasks[taskId].history[1] = exec[taskId].context.userMessage)
  /\ [][/\ (Handled /\ IsSend(req') /\ resp'.status = 200)
             => tasks'[resp'.body.result.id].history[1] = MessageOf(req'.body.params)
        /\ \A taskId \in DOMAIN tasks :
             /\ taskId \in DOMAIN tasks'
             /\ IsPrefix(tasks[taskId].history, tasks'[taskId].history)
             /\ IsPrefix(tasks[taskId].task.artifacts, tasks'[taskId].task.artifacts)]_vars

\* a finished task has the client's message first, two agent messages
\* after it, and an artifact
HistoryGrewToThree ==
  \E taskId \in DOMAIN tasks :
    /\ exec[taskId].pc = "done"
    /\ Len(tasks[taskId].history) = 3
    /\ tasks[taskId].history[1].role = "user"
    /\ tasks[taskId].history[3].role = "agent"
    /\ Len(tasks[taskId].task.artifacts) = 1

\* status.timestamp of the record
TimestampOf(store, taskId) == store[taskId].task.status.timestamp

(***************************************************************************)
(* C24.  status.timestamp of a record never decreases (the clock does      *)
(* not): a new record is stamped with the time of its tasks/send, an       *)
(* update with a state stamps the record with the time of the call, and an *)
(* update without a state leaves the timestamp as it is.                   *)
(***************************************************************************)
TimestampNeverDecreases ==
  [][/\ \A taskId \in DOMAIN tasks' \ DOMAIN tasks : TimestampOf(tasks', taskId) = clock
     /\ \A taskId \in DOMAIN tasks :
          /\ TimestampOf(tasks', taskId) >= TimestampOf(tasks, taskId)
          /\ sink'[taskId] # sink[taskId]
               => IF Has(Last(sink'[taskId]), "state")
                    THEN TimestampOf(tasks', taskId) = clock
                    ELSE TimestampOf(tasks', taskId) = TimestampOf(tasks, taskId)]_vars

\* an update without a state was merged after the clock had advanced, and
\* the record has the timestamp of its last update with a state
StatelessUpdateKeptTimestamp ==
  /\ req.route = "updateCallback" /\ req.taskId \in DOMAIN tasks
  /\ ~Has(req.update, "state")
  /\ Last(sink[req.taskId]) = req.update
  /\ TimestampOf(tasks, req.taskId) < clock

\* the task was sent with a skill the card does not list, or its work
\* unit throws
FailsByItself(context) == ~Listed(context) \/ FaultOf(context) # ""

(***************************************************************************)
(* C25.  A tasks/send (with params) of an unlisted skill, or one whose     *)
(* work unit throws, is answered with a success envelope that holds the    *)
(* Task Record, never with an error envelope; the failure is the record's  *)
(* state failed once the execution is over, and that is what a tasks/get   *)
(* of the task returns, again in a success envelope.                       *)
(***************************************************************************)
FailureOnlyInRecord ==
  /\ []((IsSend(req) /\ FailsByItself(ContextOf(req.body.params)))
          => /\ resp.status = 200
             /\ Has(resp.body, "result") /\ ~Has(resp.body, "error")
             /\ resp.body.result.id \in DOMAIN tasks
             /\ DOMAIN resp.body.result = {"id", "status", "artifacts"})
  /\ [][\A taskId \in DOMAIN tasks :
          (/\ Handled /\ IsGetOf(req', taskId)
           /\ FailsByItself(exec[taskId].context) /\ exec[taskId].pc = "done")
            => /\ resp'.status = 200
               /\ Has(resp'.body, "result") /\ ~Has(resp'.body, "error")
               /\ resp'.body.result.status.state = "failed"]_vars

\* a tasks/get of a listed skill's task whose work unit threw was answered
\* with the record in state failed
PollSawFaultAsFailed ==
  \E taskId \in DOMAIN tasks :
    /\ Listed(exec[taskId].context) /\ FaultOf(exec[taskId].context) # ""
    /\ PolledState(req, resp, taskId) = "failed"
    /\ ~Has(resp.body, "error")

(***************************************************************************)
(* C26.  An authenticated tasks/send that is malformed (no params, or      *)
(* params without a message) is answered in its own step with an error     *)
(* envelope, and no record is created or changed.                          *)
(* The code does this for a request without params only: with params that  *)
(* have no message it stores a record whose history is [undefined],        *)
(* answers with that record, and the execution fails on the missing        *)
(* message.                                                                *)
(***************************************************************************)
MalformedSendRejected ==
  [][(/\ Handled /\ Authenticated(req') /\ Has(req', "body")
      /\ MethodCase(req'.body) = "tasks/send"
      /\ \/ ~Has(req'.body, "params")
         \/ ~Has(req'.body.params, "message"))
       => /\ Has(resp'.body, "error") /\ ~Has(resp'.body, "result")
          /\ tasks' = tasks /\ exec' = exec /\ sink' = sink]_vars

(***************************************************************************)
(* C27.  No step removes a record from the store, and every authenticated  *)
(* tasks/get that names a stored id is answered with a success envelope    *)
(* holding the task of that id, never with 'Task not found', however long  *)
(* ago the task was created or finished.                                   *)
(***************************************************************************)
RecordsAreNeverRemoved ==
  /\ [][DOMAIN tasks \subseteq DOMAIN tasks']_vars
  /\ [][\A taskId \in DOMAIN tasks :
          (Handled /\ IsGetOf(req', taskId))
            => /\ resp'.status = 200
               /\ Has(resp'.body, "result") /\ ~Has(resp'.body, "error")
               /\ resp'.body.result.id = tasks[taskId].task.id
               /\ taskId \in DOMAIN tasks']_vars

\* a tasks/get returned a finished task after a later task was created
\* (the ids of the model are in the order of creation)
FinishedTaskStillReturned ==
  \E taskId \in DOMAIN tasks :
    /\ PolledState(req, resp, taskId) \in TerminalStates
    /\ \E later \in DOMAIN tasks : later > taskId

\* the states a sequence of updates assigns, in the order of the updates
RECURSIVE StatesOf(_)
StatesOf(updates) ==
  IF updates = <<>> THEN <<>>
  ELSE (IF Has(Head(updates), "state") THEN <<Head(updates).state>> ELSE <<>>)
       \o StatesOf(Tail(updates))

\* the states a record went through: submitted at its creation, then the
\* states of the updates that were applied to it
PathOf(taskId) == <<"submitted">> \o StatesOf(sink[taskId])

\* the state changes of the protocol
AllowedChanges ==
  {<<"submitted", "working">>, <<"working", "working">>, <<"working", "completed">>,
   <<"working", "failed">>, <<"submitted", "failed">>}
    \cup {<<from, "canceled">> : from \in {"submitted", "working"}}

(***************************************************************************)
(* C28.  A record is created in state submitted and every assignment of a  *)
(* state to it is one of submitted -> working, working -> working,         *)
(* working -> completed, working -> failed, submitted -> failed and        *)
(* non-terminal -> canceled; the stored state is the last one assigned.    *)
(***************************************************************************)
StateChangesAreAllowed ==
  \A taskId \in DOMAIN tasks :
    /\ \A i \in 1..(Len(PathOf(taskId)) - 1) :
         <<PathOf(taskId)[i], PathOf(taskId)[i + 1]>> \in AllowedChanges
    /\ StateOf(taskId) = Last(PathOf(taskId))

\* one task went submitted, working, completed and another submitted, failed
BothPathsTaken ==
  /\ \E taskId \in DOMAIN tasks : PathOf(taskId) = <<"submitted", "working", "completed">>
  /\ \E taskId \in DOMAIN tasks : PathOf(taskId) = <<"submitted", "failed">>

\* the messages a sequence of updates carries, in the order of the updates
RECURSIVE MessagesOf(_)
MessagesOf(updates) ==
  IF updates = <<>> THEN <<>>
  ELSE (IF Has(Head(updates), "message") THEN <<Head(updates).message>> ELSE <<>>)
       \o MessagesOf(Tail(updates))

\* r asks for the history
WantsHistory(r) ==
  Has(r.body.params, "includeHistory") /\ r.body.params.includeHistory = TRUE

(***************************************************************************)
(* C29.  The history of a record is the message of its tasks/send followed *)
(* by the messages of the updates in the order in which the sink was       *)
(* called; a tasks/get returns the status, the artifacts and (on request)  *)
(* the history as they are after every update made before it; and the      *)
(* history of a completed add of a and b is the user message,              *)
(* 'Calculating sum...', 'The sum is <a+b>'.                               *)
(***************************************************************************)
HistoryInSinkOrder ==
  /\ [](\A taskId \in DOMAIN tasks :
          /\ tasks[taskId].history
               = <<exec[taskId].context.userMessage>> \o MessagesOf(sink[taskId])
          /\ (/\ IsSkill(exec[taskId].context, "add") /\ StateOf(taskId) = "completed"
              /\ Has(ParamsOf(exec[taskId].context.userMessage), "a")
              /\ Has(ParamsOf(exec[taskId].context.userMessage), "b"))
               => tasks[taskId].history
                    = << exec[taskId].context.userMessage,
                         AgentMessage("Calculating sum..."),
                         AgentMessage("The sum is "
                           \o ToString(ParamsOf(exec[taskId].context.userMessage).a
                                         + ParamsOf(exec[taskId].context.userMessage).b)) >>)
  /\ [][\A taskId \in DOMAIN tasks :
          (Handled /\ IsGetOf(req', taskId))
            => /\ resp'.status = 200
               /\ resp'.body.result.status = tasks'[taskId].task.status
               /\ resp'.body.result.artifacts = tasks'[taskId].task.artifacts
               /\ WantsHistory(req') => resp'.body.result.history = tasks'[taskId].history]_vars

\* a tasks/get with includeHistory returned the three messages of add(5, 3)
PollReturnedSumHistory ==
  \E taskId \in DOMAIN tasks :
    /\ IsGetOf(req, taskId) /\ WantsHistory(req) /\ resp.status = 200
    /\ Len(resp.body.result.history) = 3
    /\ resp.body.result.history[1].role = "user"
    /\ SubSeq(resp.body.result.history, 2, 3)
         = <<AgentMessage("Calculating sum..."), AgentMessage("The sum is 8")>>

(***************************************************************************)
(* C30.  In waitForCompletion a tasks/get is made only by a deadline check *)
(* that passed, in the same turn: the request carries the time of a check  *)
(* at which the elapsed time was at most maxWaitMs, and after its response *)
(* the loop ends or sleeps pollIntervalMs and checks again.  A check at    *)
(* which the elapsed time exceeds maxWaitMs throws the timeout error and   *)
(* makes no request.                                                       *)
(***************************************************************************)
PollOnlyAfterPassedCheck ==
  /\ [][(client'.pc = "poll" /\ client.pc # "poll")
          => /\ client.pc = "check"
             /\ clock - client.startTime <= client.maxWaitMs
             /\ client'.issuedAt = clock]_vars
  /\ [][(client.pc = "check" /\ client'.pc # "check")
          => IF clock - client.startTime > client.maxWaitMs
               THEN /\ client'.pc = "threw"
                    /\ client'.error = TimeoutMessage(server, client)
                    /\ req' = req
               ELSE client'.pc = "poll"]_vars
  /\ [][(req' # req /\ IsGetOf(req', client.taskId)) => client.pc = "poll"]_vars
  /\ [][(client.pc = "poll" /\ client'.pc # "poll")
          => /\ IsGetOf(req', client.taskId)
             /\ req'.body.id = RequestIdAt(client.issuedAt)
             /\ client.issuedAt - client.startTime <= client.maxWaitMs
             /\ client'.pc \in {"threw", "returned", "sleeping"}
             /\ client'.pc = "sleeping"
                  => client'.wakeAt = clock + client.pollIntervalMs]_vars

\* C30 as the specification states it: the above, and waitForCompletion
\* ends at most pollIntervalMs after maxWaitMs has elapsed.  The response of
\* a poll made in time can come later than that.
WaitOverrunsAtMostOneInterval ==
  /\ PollOnlyAfterPassedCheck
  /\ [][(client.pc \in {"check", "poll"} /\ client'.pc \in {"threw", "returned"})
          => clock - client.startTime <= client.maxWaitMs + client.pollIntervalMs]_vars

\* the timeout was thrown by the check that followed a poll made in time
TimedOutAfterPoll ==
  /\ TimedOut
  /\ IsGetOf(req, client.taskId)
  /\ req.body.id = RequestIdAt(client.issuedAt)
  /\ client.issuedAt - client.startTime <= client.maxWaitMs
  /\ clock - client.startTime > client.maxWaitMs

(***************************************************************************)
(* C31.  When a poll of waitForCompletion returns a record whose state is  *)
(* completed, failed, canceled or rejected, the call ends in that step (it *)
(* returns or throws): it does not sleep, poll again or wait for the       *)
(* timeout.                                                                *)
(* BlogClient does not do this for rejected: its list of terminal states   *)
(* is completed, failed, canceled, so it sleeps and polls a rejected task  *)
(* until the timeout.                                                      *)
(***************************************************************************)
TerminalPollEndsWait ==
  [][(/\ client.pc = "poll" /\ client'.pc # "poll"
      /\ resp'.status = 200 /\ Has(resp'.body, "result")
      /\ resp'.body.result.status.state \in TerminalStates)
       => client'.pc \in {"returned", "threw"}]_vars

\* this step is a discover() that threw, called by the program or by a
\* sendTask without a card
DiscoveryFailed ==
  /\ client'.pc = "threw"
  /\ \/ client.pc = "idle"
     \/ client.pc = "sendTask" /\ client.agentCard = <<>>

(***************************************************************************)
(* C32.  A discover() that returns has stored the card it fetched in the   *)
(* client; a sendTask of a client that has a card makes no discovery fetch *)
(* and keeps the card; and a discover() that throws leaves the card of the *)
(* client as it was.                                                       *)
(* The last part fails: this.agentCard is assigned before the card's       *)
(* skills are read, so an ok response whose JSON has no skills replaces    *)
(* the cached card and then makes discover() throw.                        *)
(***************************************************************************)
DiscoveryCachesManifest ==
  /\ [][\A response \in CardResponses(server) :
          (/\ client.pc \in {"idle", "sendTask"} /\ client'.pc = client.pc
           /\ client' = discover(client, response) /\ client' # client)
            => client'.agentCard = <<response.body>>]_vars
  /\ [][(client.pc = "sendTask" /\ client.agentCard # <<>> /\ client' # client)
          => /\ client'.agentCard = client.agentCard
             /\ req' = req \/ IsSend(req')]_vars
  /\ [][DiscoveryFailed => client'.agentCard = client.agentCard]_vars

\* r is an authenticated tasks/get, with params or without
IsGetRequest(r) ==
  Authenticated(r) /\ Has(r, "body") /\ MethodCase(r.body) = "tasks/get"

(***************************************************************************)
(* C33.  A step that answers a tasks/get (of a stored id, of an id that is *)
(* not stored, or without params) or the request of the agent card leaves  *)
(* the store as it is: the same ids, and the same task (state, timestamp,  *)
(* artifacts) and history under every id; no execution is started or       *)
(* moved.                                                                  *)
(***************************************************************************)
ReadsLeaveStore ==
  [][(Handled /\ (IsGetRequest(req') \/ req' = CardRequest))
       => /\ DOMAIN tasks' = DOMAIN tasks
          /\ \A taskId \in DOMAIN tasks :
               /\ tasks'[taskId].task = tasks[taskId].task
               /\ tasks'[taskId].history = tasks[taskId].history
          /\ exec' = exec /\ sink' = sink]_vars

\* a tasks/get with includeHistory was answered with the history, and the
\* stored task has got no history member
HistoryServedFromCopy ==
  \E taskId \in DOMAIN tasks :
    /\ IsGetOf(req, taskId) /\ WantsHistory(req) /\ resp.status = 200
    /\ Has(resp.body.result, "history")
    /\ ~Has(tasks[taskId].task, "history")

(***************************************************************************)
(* C34.  A step in which updates are applied for one task id (the updates  *)
(* of its tasks/send, of its timer, or a call of its sink) leaves the      *)
(* record of every other id (task and history) and the updates recorded    *)
(* for it unchanged, whatever other tasks are in flight.                   *)
(***************************************************************************)
UpdateTouchesOneRecord ==
  [][\A taskId \in DOMAIN sink' :
       (taskId \notin DOMAIN sink \/ sink'[taskId] # sink[taskId])
         => \A other \in DOMAIN tasks \ {taskId} :
              /\ tasks'[other] = tasks[other]
              /\ sink'[other] = sink[other]
              /\ exec'[other] = exec[other]]_vars

\* the second task finished while the first, sent before it, is still
\* working
LaterTaskFinishedFirst ==
  /\ {1, 2} \subseteq DOMAIN tasks
  /\ StateOf(2) = "completed"
  /\ StateOf(1) = "working" /\ exec[1].pc = "sleep"

(***************************************************************************)
(* C35.  Every update is merged whole before a tasks/get can be served: a  *)
(* tasks/get response that shows state completed has at least one          *)
(* artifact, and the status message of a response is the last element of   *)
(* the history of the record (and of the history in the response, when it  *)
(* has one).                                                               *)
(***************************************************************************)
UpdateVisibleWhole ==
  [][\A taskId \in DOMAIN tasks :
       (Handled /\ IsGetOf(req', taskId) /\ resp'.status = 200)
         => LET result == resp'.body.result
            IN  /\ result.status.state = "completed" => Len(result.artifacts) > 0
                /\ Has(result.status, "message")
                     => /\ result.status.message = Last(tasks'[taskId].history)
                        /\ Has(result, "history")
                             => result.status.message = Last(result.history)]_vars

\* a tasks/get with includeHistory showed a completed task, its artifact,
\* and its last message as the status message
PollSawCompletedWhole ==
  \E taskId \in DOMAIN tasks :
    /\ PolledState(req, resp, taskId) = "completed"
    /\ Len(resp.body.result.artifacts) = 1
    /\ Has(resp.body.result, "history")
    /\ resp.body.result.status.message = Last(resp.body.result.history)

\* the record has no status message and a history of one element, or its
\* status message is the last of the several elements of its history
MessageIsLastOfHistory(taskData) ==
  IF Has(taskData.task.status, "message")
    THEN /\ Len(taskData.history) > 1
         /\ taskData.task.status.message = Last(taskData.history)
    ELSE Len(taskData.history) = 1

\* the store after updateCallback has merged the updates, one by one
RECURSIVE MergeAll(_, _, _)
MergeAll(store, taskId, updates) ==
  IF updates = <<>> THEN store
  ELSE MergeAll(updateCallback(store, taskId, Head(updates), 0), taskId, Tail(updates))

\* the record of taskId as tasks/send stores it, after the first k of the
\* updates its sink was called with (the timestamps left aside)
RecordAfter(taskId, k) ==
  MergeAll(taskId :> [task |-> NewTask(taskId, 0),
                      history |-> <<exec[taskId].context.userMessage>>],
           taskId, SubSeq(sink[taskId], 1, k))[taskId]

(***************************************************************************)
(* C36.  The status message of a record is absent exactly when its history *)
(* has one element, and is the last element of the history otherwise: in   *)
(* every reachable state, and also after each single update of the record  *)
(* (the record as stored by tasks/send, with no update yet, has a history  *)
(* of one element and no status message).                                  *)
(***************************************************************************)
StatusMessageFollowsHistory ==
  \A taskId \in DOMAIN tasks :
    /\ MessageIsLastOfHistory(tasks[taskId])
    /\ \A k \in 0..Len(sink[taskId]) : MessageIsLastOfHistory(RecordAfter(taskId, k))
    /\ RecordAfter(taskId, Len(sink[taskId])).history = tasks[taskId].history

\* the last update of a record had no message, and the status message is
\* still the last element of the history
MessageKeptByBareUpdate ==
  \E taskId \in DOMAIN tasks :
    /\ Len(sink[taskId]) > 1
    /\ ~Has(Last(sink[taskId]), "message")
    /\ Has(tasks[taskId].task.status, "message")
    /\ tasks[taskId].task.status.message = Last(tasks[taskId].history)

(***************************************************************************)
(* C37.  Under every kind of request (tasks/cancel among them) the state   *)
(* of every record is submitted, working, completed or failed, never       *)
(* canceled or rejected, and the cancellation probe of every task's        *)
(* context is false.                                                       *)
(***************************************************************************)
NeverCanceledOrRejected ==
  \A taskId \in DOMAIN tasks :
    /\ StateOf(taskId) \in {"submitted", "working", "completed", "failed"}
    /\ ~isCancelled(tasks, taskId)

\* a tasks/cancel of the task was answered 'Method not found', and the task
\* has completed
CompletedDespiteCancel ==
  /\ Authenticated(req) /\ Has(req, "body") /\ Has(req.body, "method")
  /\ req.body.method = "tasks/cancel"
  /\ Has(req.body, "params") /\ req.body.params.taskId \in DOMAIN tasks
  /\ IsError(resp, 404, -32601, "Method not found")
  /\ StateOf(req.body.params.taskId) = "completed"

\* waitForCompletion has returned or thrown
WaitEnded == client.pc \in {"returned", "threw"}

(***************************************************************************)
(* C38.  With a maxWaitMs that the clock passes and a positive poll        *)
(* interval, when every getTask is answered and every timer fires,         *)
(* waitForCompletion ends: it returns a record or throws, also when every  *)
(* poll shows a task that is not terminal; and between two polls at least  *)
(* the poll interval passes, so that the polls made in time are finitely   *)
(* many.                                                                   *)
(***************************************************************************)
WaitTerminates ==
  /\ <>WaitEnded
  /\ [][(client.pc = "sleeping" /\ client'.pc # "sleeping")
          => /\ client'.pc = "check"
             /\ clock >= client.wakeAt \/ clock = MaxClock
             /\ client.wakeAt >= client.issuedAt + client.pollIntervalMs]_vars

\* the timeout ended a wait whose last poll showed the task still working
GaveUpOnWorkingTask ==
  /\ TimedOut
  /\ PolledRecord /\ Polled.status.state = "working"
  /\ clock > client.maxWaitMs

\* waitForCompletion was called with an id the agent has no record of
WaitsForUnknown == client.taskId = UnknownTaskId /\ client.taskId \notin DOMAIN tasks

(***************************************************************************)
(* C39.  A waitForCompletion of a task id that the agent does not know     *)
(* ends with its first poll: the tasks/get is answered 404 'Task not       *)
(* found', sendRequest throws "RPC Error: Task not found", and the call    *)
(* throws that error; it never sleeps or polls again, never throws the     *)
(* timeout error, and the store is not changed.                            *)
(***************************************************************************)
UnknownTaskFailsFirstPoll ==
  /\ [][(WaitsForUnknown /\ client.pc = "poll" /\ client'.pc # "poll")
          => /\ IsGetOf(req', client.taskId)
             /\ IsError(resp', 404, -32002, "Task not found")
             /\ client'.pc = "threw"
             /\ client'.error = "RPC Error: Task not found"
             /\ tasks' = tasks]_vars
  /\ [](WaitsForUnknown
          => /\ client.pc \in {"check", "poll", "threw"}
             /\ client.pc \in {"check", "poll"} => ~IsGetOf(req, client.taskId)
             /\ client.pc = "threw" => client.error = "RPC Error: Task not found")

\* the wait for an unknown id has thrown the RPC error of its first poll
UnknownWaitThrewNotFound ==
  /\ WaitsForUnknown
  /\ client.pc = "threw" /\ client.error = "RPC Error: Task not found"
  /\ IsGetOf(req, client.taskId) /\ resp.status = 404

====
